---------------------------- MODULE Spec2Model ----------------------------
(***************************************************************************)
(* A state-machine model of CTensor (diegoroux/cann): the Model            *)
(* Abstraction API (lib/models.c), the fully-connected and ReLU layers,    *)
(* the MSE loss, the Adam optimizer and the numeric kernels they call.     *)
(*                                                                         *)
(* The heap is modelled block by block: every malloc returns a fresh       *)
(* block id, every free is counted, every data access is bounds-checked    *)
(* against the block it goes through.  ctensor_data_t (float) is modelled  *)
(* as a binary floating-point number <<m, e>> = m * 2^e whose mantissa is  *)
(* rounded to MantBits bits after every operation.                         *)
(***************************************************************************)
EXTENDS Integers, Sequences, FiniteSets, TLC

(***************************************************************************)
(* Bounds of the model.                                                    *)
(***************************************************************************)
MantBits == 12
MaxInSize == 2
MaxOutSize == 2
MaxLayers == 2
MaxEpochs == 2
MaxBatches == 2
MaxBatchSize == 2

(***************************************************************************)
(* ctensor_data_t.  <<m, e>> stands for m * 2^e; the canonical form has m  *)
(* odd (or <<0, 0>> for zero), so equal numbers are equal values.          *)
(***************************************************************************)
Abs(n) == IF n < 0 THEN -n ELSE n

Sgn(n) == IF n < 0 THEN -1 ELSE IF n = 0 THEN 0 ELSE 1

Pow2(n) == IF n <= 0 THEN 1 ELSE 2^n

\* Integers stay below 2^IntBits.
IntBits == 2 * MantBits + 7

\* The number of bits of n >= 0.
BitLen(n) == CHOOSE k \in 0..IntBits : n < 2^k /\ (k = 0 \/ 2^(k - 1) <= n)

\* Move the trailing zero bits of the mantissa into the exponent.
Strip(m, e) ==
    IF m = 0 THEN <<0, 0>>
    ELSE LET k == CHOOSE k \in 0..IntBits : Abs(m) % 2^k = 0 /\ Abs(m) % 2^(k + 1) # 0
         IN  <<Sgn(m) * (Abs(m) \div 2^k), e + k>>

\* Round the mantissa to MantBits bits (to nearest, ties away from zero).
Round(m, e) ==
    LET k == BitLen(Abs(m)) - MantBits
    IN  IF k <= 0 THEN <<m, e>>
        ELSE <<Sgn(m) * ((Abs(m) + Pow2(k - 1)) \div Pow2(k)), e + k>>

F(m, e) == LET r == Round(m, e) IN Strip(r[1], r[2])

FInt(n) == F(n, 0)

FZero == <<0, 0>>

FOne == <<1, 0>>

FTop(a) == a[2] + BitLen(Abs(a[1]))

FNeg(a) == <<-a[1], a[2]>>

FAdd(a, b) ==
    IF a[1] = 0 THEN b
    ELSE IF b[1] = 0 THEN a
    ELSE IF FTop(a) - FTop(b) > MantBits + 1 THEN a
    ELSE IF FTop(b) - FTop(a) > MantBits + 1 THEN b
    ELSE LET emin == IF a[2] < b[2] THEN a[2] ELSE b[2]
         IN  F(a[1] * Pow2(a[2] - emin) + b[1] * Pow2(b[2] - emin), emin)

FSub(a, b) == FAdd(a, FNeg(b))

FMul(a, b) == F(a[1] * b[1], a[2] + b[2])

\* a / b for b # 0: the dividend's mantissa is widened to 2*MantBits+1 bits
\* first, so the quotient keeps at least MantBits significant bits.
FDiv(a, b) ==
    IF a[1] = 0 THEN FZero
    ELSE LET s == (2 * MantBits + 1) - BitLen(Abs(a[1]))
             q == (Abs(a[1]) * Pow2(s)) \div Abs(b[1])
         IN  F(Sgn(a[1]) * Sgn(b[1]) * q, a[2] - s - b[2])

FLt(a, b) == FSub(a, b)[1] < 0

FLe(a, b) == FSub(a, b)[1] <= 0

RECURSIVE ISqrtBits(_, _, _)
ISqrtBits(n, r, bit) ==
    IF bit = 0 THEN r
    ELSE IF (r + bit) * (r + bit) <= n THEN ISqrtBits(n, r + bit, bit \div 2)
    ELSE ISqrtBits(n, r, bit \div 2)

\* sqrtf(a) for a >= 0.
FSqrt(a) ==
    IF a[1] = 0 THEN FZero
    ELSE LET s0 == (2 * MantBits) - BitLen(a[1])
             s == IF (a[2] - s0) % 2 = 0 THEN s0 ELSE s0 + 1
             n == a[1] * Pow2(s)
         IN  F(ISqrtBits(n, 0, Pow2(MantBits)), (a[2] - s) \div 2)

\* powf(b, t) for an integer t >= 0.
RECURSIVE FPow(_, _)
FPow(b, t) == IF t <= 0 THEN FOne ELSE FMul(b, FPow(b, t - 1))


(***************************************************************************)
(* Pointers.  A heap block is named by the ordinal of the malloc that      *)
(* returned it; the caller's buffers have negative names.                  *)
(***************************************************************************)
NullPtr == 0

\* The value of a pointer field that was never assigned (struct from malloc,
\* or a CTensor_Model_s the caller did not clear).
WildPtr == -1

\* Data buffers owned by the caller: the predict/test input and expected
\* output, and the four tensors handed to ctensor_train.
InputBlk == -10
ExpectedBlk == -11
XTrainBlk == -12
YTrainBlk == -13
XTestBlk == -14
YTestBlk == -15

NullData == [blk |-> NullPtr, off |-> 0]

Upd(f, k, v) == (k :> v) @@ f

VARIABLES
    env,        \* what the platform does where C leaves it open
    model,      \* CTensor_Model_s
    layers,     \* CTensor_Layer_s structs, by address
    tens,       \* CTensor_s structs, by address
    mem,        \* contents of the data buffers, by address
    fcls,       \* _fcl_s structs, by address
    losses,     \* CTensor_Loss_s structs, by address
    opts,       \* CTensor_Optimizer_s structs, by address
    adams,      \* _adam_s structs, by address
    heap,       \* one entry per malloc: what it is and how often it was freed
    oob,        \* data accesses that fell outside the buffer they went through
    oom,        \* whether a malloc has returned NULL (history)
    log,        \* callbacks invoked by the API call in progress / last made
    slices,     \* parts of the gradient buffer its walks went through, in order
    status,     \* "ok", or "crashed" once a null or wild pointer was used
    hist,       \* which API calls have been made (history)
    train,      \* locals of the ctensor_train call in progress
    ret,        \* what the last API call returned
    rand        \* the generator state and what the last random call drew

vars == <<env, model, layers, tens, mem, fcls, losses, opts, adams, heap,
          oob, oom, log, slices, status, hist, train, ret, rand>>

\* The mutable program state as one record, so that a handler is a function
\* from state to state.  failAt = k > 0 makes the k-th malloc from now fail.
State(fail) ==
    [env |-> env, model |-> model, layers |-> layers, tens |-> tens,
     mem |-> mem, fcls |-> fcls, losses |-> losses, opts |-> opts,
     adams |-> adams, heap |-> heap, oob |-> oob, oom |-> oom, log |-> <<>>,
     slices |-> <<>>, status |-> status, failAt |-> fail]

\* No random call has been made.
NoRand == [op |-> "none"]

\* The program is left in state s, the generator in r.
CommitRand(s, r) ==
    /\ rand' = r
    /\ model' = s.model
    /\ layers' = s.layers
    /\ tens' = s.tens
    /\ mem' = s.mem
    /\ fcls' = s.fcls
    /\ losses' = s.losses
    /\ opts' = s.opts
    /\ adams' = s.adams
    /\ heap' = s.heap
    /\ oob' = s.oob
    /\ oom' = s.oom
    /\ log' = s.log
    /\ slices' = s.slices
    /\ status' = s.status
    /\ env' = env

Commit(s) == CommitRand(s, rand)

Crash(s) == [s EXCEPT !.status = "crashed"]

Ok(s) == s.status = "ok"

Event(s, e) == [s EXCEPT !.log = Append(@, e)]

\* Note that a walk is about to go through the s.tens[ig].size cells that
\* grad->data points at, on behalf of the internal_grad tensor ig.
Slice(s, op, grad, ig) ==
    [s EXCEPT !.slices = Append(@, [op |-> op, ig |-> ig, blk |-> s.tens[grad].data.blk,
                                    off |-> s.tens[grad].data.off,
                                    len |-> s.tens[ig].size])]

\* The next statement runs only if the process is still alive.
Then(s, Stmt(_)) == IF Ok(s) THEN Stmt(s) ELSE s

(***************************************************************************)
(* malloc / free.                                                          *)
(***************************************************************************)
Malloc(s, tag) ==
    IF s.failAt = 1
    THEN [s |-> [s EXCEPT !.failAt = 0, !.oom = TRUE], p |-> NullPtr]
    ELSE [s |-> [s EXCEPT !.heap = Append(@, [tag |-> tag, frees |-> 0]),
                          !.failAt = IF @ > 1 THEN @ - 1 ELSE 0],
          p |-> Len(s.heap) + 1]

\* malloc(n * sizeof(ctensor_data_t)): the new buffer holds whatever the
\* allocator left there (env.junk); malloc(0) may return NULL.
MallocData(s, n) ==
    IF n = 0 /\ s.env.malloc0null
    THEN [s |-> s, p |-> NullPtr]
    ELSE LET r == Malloc(s, "data")
         IN  IF r.p = NullPtr THEN r
             ELSE [s |-> [r.s EXCEPT !.mem = Upd(@, r.p, [i \in 1..n |-> s.env.junk])],
                   p |-> r.p]

\* free(p).  Freeing what malloc did not return is recorded and aborts.
Free(s, p) ==
    IF p = NullPtr THEN s
    ELSE IF p \notin 1..Len(s.heap)
    THEN Crash([s EXCEPT !.oob = @ \cup {<<"free", p, 0>>}])
    ELSE [s EXCEPT !.heap[p].frees = @ + 1]

IsTensor(s, t) == t \in DOMAIN s.tens

IsLayer(s, l) == l \in DOMAIN s.layers

ctensor_new_tensor(s, size) ==
    LET r1 == Malloc(s, "CTensor_s")
    IN  IF r1.p = NullPtr THEN r1
        ELSE LET r2 == MallocData(r1.s, size)
             IN  IF r2.p = NullPtr
                 THEN [s |-> Free(r2.s, r1.p), p |-> NullPtr]
                 ELSE [s |-> [r2.s EXCEPT !.tens = Upd(@, r1.p,
                                  [size |-> size, data |-> [blk |-> r2.p, off |-> 0]])],
                       p |-> r1.p]

\* free(tensor->data); free(tensor).  A data pointer that is not the start
\* of its block is not something malloc returned.
ctensor_destroy_tensor(s, t) ==
    IF ~IsTensor(s, t) THEN Crash(s)
    ELSE LET d == s.tens[t].data
         IN  IF d.off # 0 THEN Crash([s EXCEPT !.oob = @ \cup {<<"free", d.blk, d.off>>}])
             ELSE Free(Free(s, d.blk), t)


(***************************************************************************)
(* Layer initialisers (the init_cb of ctensor_add_layer).                  *)
(***************************************************************************)
\* A CTensor_Layer_s as malloc returns it: no field assigned yet.
RawLayer ==
    [next |-> WildPtr, prev |-> WildPtr, fwd |-> "wild", bckp |-> "wild",
     update |-> "wild", del |-> "wild", in |-> WildPtr, out |-> WildPtr,
     internal |-> WildPtr, in_grad |-> WildPtr, loss_grad |-> WildPtr,
     internal_grad |-> WildPtr]

ctensor_relu_init(s, layer) ==
    [s EXCEPT !.layers[layer].fwd = "ctensor_relu_fwd",
              !.layers[layer].bckp = "ctensor_relu_bckp",
              !.layers[layer].update = "NULL",
              !.layers[layer].del = "NULL",
              !.layers[layer].internal = NullPtr,
              !.layers[layer].internal_grad = NullPtr]

\* Lines 72-76, with r what ctensor_new_tensor returned for internal_grad.
ctensor_fcl_init_grad(r, layer) ==
    [r.s EXCEPT !.layers[layer].internal_grad = r.p]

\* Lines 66-76, with r what ctensor_new_tensor returned for the bias.
ctensor_fcl_init_bias(r, layer, data, kernel_size) ==
    LET s4 == [r.s EXCEPT !.fcls[data].bias = r.p]
    IN  IF r.p = NullPtr THEN s4
        ELSE ctensor_fcl_init_grad(
                 ctensor_new_tensor(s4, kernel_size + s4.tens[r.p].size), layer)

\* Lines 60-76, with r what ctensor_new_tensor returned for the kernel.
ctensor_fcl_init_kernel(r, layer, data) ==
    LET s3 == [r.s EXCEPT !.fcls[data].kernel = r.p]
    IN  IF r.p = NullPtr THEN s3
        ELSE ctensor_fcl_init_bias(
                 ctensor_new_tensor(s3, s3.tens[s3.layers[layer].out].size),
                 layer, data, s3.tens[r.p].size)

\* Lines 54-76, with r what malloc returned for the _fcl_s struct.
ctensor_fcl_init_data(r, layer) ==
    LET s1 == [r.s EXCEPT !.layers[layer].internal = r.p]
        L == s1.layers[layer]
    IN  IF r.p = NullPtr THEN s1
        ELSE IF ~IsTensor(s1, L.out) \/ ~IsTensor(s1, L.in) THEN Crash(s1)
        ELSE ctensor_fcl_init_kernel(
                 ctensor_new_tensor(
                     [s1 EXCEPT !.fcls = Upd(@, r.p, [kernel |-> WildPtr, bias |-> WildPtr])],
                     s1.tens[L.out].size * s1.tens[L.in].size),
                 layer, r.p)

ctensor_fcl_init(s, layer) ==
    ctensor_fcl_init_data(
        Malloc([s EXCEPT !.layers[layer].fwd = "ctensor_fcl_fwd",
                         !.layers[layer].bckp = "ctensor_fcl_bckp",
                         !.layers[layer].update = "ctensor_fcl_update",
                         !.layers[layer].del = "ctensor_fcl_del"], "_fcl_s"),
        layer)

LayerKinds == {"relu", "fcl"}

\* An init callback of the caller's own (init_cb is any function of the
\* layer): a layer that passes its input through ReLU and takes no part in
\* backpropagation, so it leaves bckp NULL.
caller_frozen_init(s, layer) ==
    [s EXCEPT !.layers[layer].fwd = "ctensor_relu_fwd",
              !.layers[layer].bckp = "NULL",
              !.layers[layer].update = "NULL",
              !.layers[layer].del = "NULL",
              !.layers[layer].internal = NullPtr,
              !.layers[layer].internal_grad = NullPtr]

InitCb(s, layer, kind) ==
    IF kind = "fcl" THEN ctensor_fcl_init(s, layer)
    ELSE IF kind = "relu" THEN ctensor_relu_init(s, layer)
    ELSE caller_frozen_init(s, layer)

(***************************************************************************)
(* Construction API (lib/models.c).                                        *)
(***************************************************************************)
ctensor_init(s, in_size) ==
    LET r1 == Malloc(s, "CTensor_Layer_s")
        in_layer == r1.p
        s1 == [r1.s EXCEPT !.model.startl = in_layer, !.model.lastl = in_layer]
    IN  IF in_layer = NullPtr THEN Crash(s1)
        ELSE
        LET r2 == Malloc(s1, "CTensor_s")
            out == r2.p
            s2 == [r2.s EXCEPT !.layers = Upd(@, in_layer,
                      [RawLayer EXCEPT !.prev = NullPtr, !.next = NullPtr,
                                       !.in = NullPtr, !.out = out])]
        IN  IF out = NullPtr THEN Crash(s2)
            ELSE
            LET s3 == [s2 EXCEPT !.tens = Upd(@, out, [size |-> in_size, data |-> NullData]),
                                 !.layers[in_layer].fwd = "NULL",
                                 !.layers[in_layer].bckp = "NULL",
                                 !.layers[in_layer].update = "NULL",
                                 !.layers[in_layer].del = "NULL"]
                r4 == ctensor_new_tensor(s3, in_size)
            IN  [r4.s EXCEPT !.layers[in_layer].in_grad = r4.p,
                             !.layers[in_layer].loss_grad = NullPtr,
                             !.layers[in_layer].internal_grad = NullPtr]

\* Lines 76-83 without "pos->loss_grad = layer->in_grad".
ctensor_add_layer_in_grad_unlinked(r, layer, pos, kind) ==
    InitCb([r.s EXCEPT !.layers[layer].in_grad = r.p], layer, kind)

\* Lines 76-87, with r what ctensor_new_tensor returned for in_grad.
ctensor_add_layer_in_grad(r, layer, pos, kind) ==
    InitCb([r.s EXCEPT !.layers[layer].in_grad = r.p,
                       !.layers[pos].loss_grad = r.p], layer, kind)

\* Lines 75-87, with r what ctensor_new_tensor returned for out.
ctensor_add_layer_out(r, layer, pos, kind) ==
    LET s3 == [r.s EXCEPT !.layers[layer].out = r.p]
    IN  IF ~IsTensor(s3, s3.layers[layer].in) THEN Crash(s3)
        ELSE ctensor_add_layer_in_grad(
                 ctensor_new_tensor(s3, s3.tens[s3.layers[layer].in].size),
                 layer, pos, kind)

\* Lines 64-87, with r what malloc returned for the layer struct.
ctensor_add_layer_link(r, pos, out_size, kind) ==
    LET s1 == [r.s EXCEPT !.model.lastl = r.p, !.layers[pos].next = r.p]
    IN  IF r.p = NullPtr THEN Crash(s1)
        ELSE ctensor_add_layer_out(
                 ctensor_new_tensor(
                     [s1 EXCEPT !.layers = Upd(@, r.p,
                         [RawLayer EXCEPT !.next = NullPtr, !.prev = pos,
                                          !.in = s1.layers[pos].out])],
                     out_size),
                 r.p, pos, kind)

ctensor_add_layer(s, out_size, kind) ==
    ctensor_add_layer_link(Malloc(s, "CTensor_Layer_s"), s.model.lastl, out_size, kind)

\* ctensor_mse_init: the loss callbacks; it allocates nothing.
ctensor_mse_init(s, loss) ==
    [s EXCEPT !.losses[loss].fwd = "ctensor_mse_fwd",
              !.losses[loss].bckp = "ctensor_mse_bckp"]

ctensor_set_loss(s) ==
    LET r1 == Malloc(s, "CTensor_Loss_s")
        loss == r1.p
        s1 == [r1.s EXCEPT !.model.lossl = loss]
        prev == s1.model.lastl
    IN  IF loss = NullPtr THEN Crash(s1)
        ELSE IF ~IsLayer(s1, prev) \/ ~IsTensor(s1, s1.layers[prev].out) THEN Crash(s1)
        ELSE
        LET in == s1.layers[prev].out
            r2 == ctensor_new_tensor(s1, s1.tens[in].size)
            s2 == [r2.s EXCEPT !.losses = Upd(@, loss,
                       [prev |-> prev, fwd |-> "wild", bckp |-> "wild",
                        in |-> in, in_grad |-> r2.p]),
                               !.layers[prev].loss_grad = r2.p]
        IN  ctensor_mse_init(s2, loss)

\* Adam's constants as ctensor_adam stores them.
AdamB1 == FDiv(FInt(99), FInt(100))

AdamB2 == FDiv(FInt(999), FInt(1000))

ctensor_adam(s, layer) ==
    LET s0 == [s EXCEPT !.opts[layer].opt = "_ct_adam_opt",
                        !.opts[layer].del = "_ct_adam_destroy"]
        r1 == Malloc(s0, "_adam_s")
        data == r1.p
        s1 == [r1.s EXCEPT !.opts[layer].internal = data]
    IN  IF data = NullPtr THEN Crash(s1)
        ELSE [s1 EXCEPT !.adams = Upd(@, data,
                 [t |-> 1, b1 |-> AdamB1, b2 |-> AdamB2, m |-> NullPtr, v |-> NullPtr])]

ctensor_set_optimizer(s) ==
    LET r1 == Malloc(s, "CTensor_Optimizer_s")
        opt == r1.p
        s1 == [r1.s EXCEPT !.model.optimizer = opt]
    IN  IF opt = NullPtr THEN Crash(s1)
        ELSE ctensor_adam([s1 EXCEPT !.opts = Upd(@, opt,
                 [opt |-> "wild", del |-> "wild", internal |-> WildPtr])], opt)


(***************************************************************************)
(* Data access through a float pointer p = [blk, off]: element i of p is   *)
(* cell off + i of block blk (0-based).  An access outside the block is    *)
(* recorded in oob: a read there yields env.junk, a write there lands      *)
(* outside every buffer of the model.                                      *)
(***************************************************************************)
InBounds(s, p, i) ==
    /\ p.blk \in DOMAIN s.mem
    /\ p.off + i >= 0
    /\ p.off + i < Len(s.mem[p.blk])

Rd(s, p, i) == IF InBounds(s, p, i) THEN s.mem[p.blk][p.off + i + 1] ELSE s.env.junk

\* The state after reading element i of p (only out-of-bounds reads leave a trace).
NoteRd(s, p, i) ==
    IF InBounds(s, p, i) THEN s
    ELSE IF p.blk = NullPtr \/ p.blk = WildPtr THEN Crash(s)
    ELSE [s EXCEPT !.oob = @ \cup {<<"r", p.blk, p.off + i>>}]

Wr(s, p, i, v) ==
    IF InBounds(s, p, i) THEN [s EXCEPT !.mem[p.blk][p.off + i + 1] = v]
    ELSE IF p.blk = NullPtr \/ p.blk = WildPtr THEN Crash(s)
    ELSE [s EXCEPT !.oob = @ \cup {<<"w", p.blk, p.off + i>>}]

Advance(p, n) == [p EXCEPT !.off = @ + n]

(***************************************************************************)
(* Numeric kernels.                                                        *)
(***************************************************************************)
\* Inner loop of ctensor_mv_dot_product (lib/loss.c): c += A[j] * B[j].
RECURSIVE DotRow(_, _, _, _, _, _)
DotRow(s, A, B, columns, j, c) ==
    IF ~Ok(s) \/ j >= columns THEN [s |-> s, c |-> c]
    ELSE DotRow(NoteRd(NoteRd(s, A, j), B, j), A, B, columns, j + 1,
                FAdd(c, FMul(Rd(s, A, j), Rd(s, B, j))))

RECURSIVE ctensor_mv_dot_product_loop(_, _, _, _, _, _, _)
ctensor_mv_dot_product_loop(s, A, rows, columns, B, C, i) ==
    IF ~Ok(s) \/ i >= rows THEN s
    ELSE LET r == DotRow(s, A, B, columns, 0, FZero)
         IN  ctensor_mv_dot_product_loop(Wr(r.s, C, i, r.c), Advance(A, columns),
                                         rows, columns, B, C, i + 1)

ctensor_mv_dot_product(s, A, rows, columns, B, C) ==
    ctensor_mv_dot_product_loop(s, A, rows, columns, B, C, 0)

\* The non-SIMD ctensor_mv_dot_product of the other revision of the kernels:
\* C[i] += A[j] * B[j], starting from what C[i] holds.
RECURSIVE ctensor_mv_dot_product_acc_loop(_, _, _, _, _, _, _)
ctensor_mv_dot_product_acc_loop(s, A, rows, columns, B, C, i) ==
    IF ~Ok(s) \/ i >= rows THEN s
    ELSE LET r == DotRow(NoteRd(s, C, i), A, B, columns, 0, Rd(s, C, i))
         IN  ctensor_mv_dot_product_acc_loop(Wr(r.s, C, i, r.c), Advance(A, columns),
                                             rows, columns, B, C, i + 1)

ctensor_mv_dot_product_acc(s, A, rows, columns, B, C) ==
    ctensor_mv_dot_product_acc_loop(s, A, rows, columns, B, C, 0)

RECURSIVE ctensor_vector_sum_loop(_, _, _, _, _, _)
ctensor_vector_sum_loop(s, A, elements, B, C, i) ==
    IF ~Ok(s) \/ i >= elements THEN s
    ELSE ctensor_vector_sum_loop(
             Wr(NoteRd(NoteRd(s, A, i), B, i), C, i, FAdd(Rd(s, A, i), Rd(s, B, i))),
             A, elements, B, C, i + 1)

ctensor_vector_sum(s, A, elements, B, C) == ctensor_vector_sum_loop(s, A, elements, B, C, 0)

RECURSIVE ctensor_sv_mult_loop(_, _, _, _, _, _)
ctensor_sv_mult_loop(s, A, elements, alpha, B, i) ==
    IF ~Ok(s) \/ i >= elements THEN s
    ELSE ctensor_sv_mult_loop(Wr(NoteRd(s, A, i), B, i, FMul(alpha, Rd(s, A, i))),
                              A, elements, alpha, B, i + 1)

ctensor_sv_mult(s, A, elements, alpha, B) == ctensor_sv_mult_loop(s, A, elements, alpha, B, 0)

RECURSIVE ZeroLoop(_, _, _, _)
ZeroLoop(s, p, n, i) ==
    IF ~Ok(s) \/ i >= n THEN s ELSE ZeroLoop(Wr(s, p, i, FZero), p, n, i + 1)

\* "Set the whole tensor to zeros."
ctensor_tensor_zeros(s, tensor) ==
    IF ~IsTensor(s, tensor) THEN Crash(s)
    ELSE ZeroLoop(s, s.tens[tensor].data, s.tens[tensor].size, 0)

(***************************************************************************)
(* Forward callbacks.                                                      *)
(***************************************************************************)
\* The layer's tensors and FCL state can all be dereferenced.
LayerWired(s, layer) ==
    /\ IsTensor(s, s.layers[layer].in)
    /\ IsTensor(s, s.layers[layer].out)

FclWired(s, layer) ==
    /\ LayerWired(s, layer)
    /\ s.layers[layer].internal \in DOMAIN s.fcls
    /\ IsTensor(s, s.fcls[s.layers[layer].internal].kernel)
    /\ IsTensor(s, s.fcls[s.layers[layer].internal].bias)

\* A forward pass that adds the bias a second time.
ctensor_fcl_fwd_bias_twice(s, layer) ==
    IF ~FclWired(s, layer) THEN Crash(s)
    ELSE
    LET in == s.tens[s.layers[layer].in]
        out == s.tens[s.layers[layer].out]
        data == s.fcls[s.layers[layer].internal]
        kernel == s.tens[data.kernel]
        bias == s.tens[data.bias]
        s1 == ctensor_mv_dot_product(s, kernel.data, out.size, in.size, in.data, out.data)
        s2 == ctensor_vector_sum(s1, out.data, out.size, bias.data, out.data)
    IN  ctensor_vector_sum(s2, out.data, out.size, bias.data, out.data)

ctensor_fcl_fwd(s, layer) ==
    IF ~FclWired(s, layer) THEN Crash(s)
    ELSE
    LET in == s.tens[s.layers[layer].in]
        out == s.tens[s.layers[layer].out]
        data == s.fcls[s.layers[layer].internal]
        kernel == s.tens[data.kernel]
        bias == s.tens[data.bias]
        s1 == IF s.env.dot = "scalar"
              THEN ctensor_mv_dot_product(s, kernel.data, out.size, in.size, in.data, out.data)
              ELSE ctensor_mv_dot_product_acc(s, kernel.data, out.size, in.size, in.data, out.data)
    IN  ctensor_vector_sum(s1, out.data, out.size, bias.data, out.data)

RECURSIVE ctensor_relu_fwd_loop(_, _, _, _, _)
ctensor_relu_fwd_loop(s, in, out, n, i) ==
    IF ~Ok(s) \/ i >= n THEN s
    ELSE ctensor_relu_fwd_loop(
             Wr(NoteRd(s, in, i), out, i, IF FLt(Rd(s, in, i), FZero) THEN FZero ELSE Rd(s, in, i)),
             in, out, n, i + 1)

ctensor_relu_fwd(s, layer) ==
    IF ~LayerWired(s, layer) THEN Crash(s)
    ELSE ctensor_relu_fwd_loop(s, s.tens[s.layers[layer].in].data,
                               s.tens[s.layers[layer].out].data,
                               s.tens[s.layers[layer].in].size, 0)

\* pos->fwd(pos)
CallFwd(s, pos) ==
    LET cb == s.layers[pos].fwd
        s1 == Event(s, <<"fwd", pos>>)
    IN  IF cb = "ctensor_fcl_fwd" THEN ctensor_fcl_fwd(s1, pos)
        ELSE IF cb = "ctensor_relu_fwd" THEN ctensor_relu_fwd(s1, pos)
        ELSE Crash(s)

\* while (pos != NULL) { pos->fwd(pos); pos = pos->next; }
RECURSIVE ForwardWalk(_, _)
ForwardWalk(s, pos) ==
    IF pos = NullPtr \/ ~Ok(s) THEN s
    ELSE IF ~IsLayer(s, pos) THEN Crash(s)
    ELSE ForwardWalk(CallFwd(s, pos), s.layers[pos].next)

\* pos = model->startl; pos->out->data = input->data; then the forward pass.
ForwardPass(s, input) ==
    ForwardWalk([s EXCEPT !.tens[s.layers[s.model.startl].out].data = s.tens[input].data],
                s.layers[s.model.startl].next)

\* The return of ctensor_predict without "pos = model->lastl" before it.
ctensor_predict_return_stale_pos(s) ==
    [s |-> s, r |-> s.layers[s.model.startl].out]

\* Lines 169-172: pos = model->lastl; return pos->out.
ctensor_predict_return(s) ==
    [s |-> s, r |-> s.layers[s.model.lastl].out]

ctensor_predict(s, input) == ctensor_predict_return(ForwardPass(s, input))

(***************************************************************************)
(* MSE loss and ctensor_test.                                              *)
(***************************************************************************)
RECURSIVE ctensor_mse_fwd_loop(_, _, _, _, _, _)
ctensor_mse_fwd_loop(s, expected, output, n, i, network_loss) ==
    IF ~Ok(s) \/ i >= n THEN [s |-> s, r |-> network_loss]
    ELSE LET output_loss == FSub(Rd(s, expected, i), Rd(s, output, i))
         IN  ctensor_mse_fwd_loop(NoteRd(NoteRd(s, expected, i), output, i), expected,
                                  output, n, i + 1,
                                  FAdd(network_loss, FMul(output_loss, output_loss)))

\* network_loss /= (ctensor_data_t)output->size
ctensor_mse_fwd_mean(r, size) == [s |-> r.s, r |-> FDiv(r.r, FInt(size))]

ctensor_mse_fwd(s, layer, expected) ==
    IF ~IsTensor(s, s.losses[layer].in) THEN [s |-> Crash(s), r |-> FZero]
    ELSE LET output == s.tens[s.losses[layer].in]
         IN  ctensor_mse_fwd_mean(
                 ctensor_mse_fwd_loop(s, s.tens[expected].data, output.data,
                                      output.size, 0, FZero),
                 output.size)

\* lossl->fwd(lossl, expected)
CallLossFwd(s, expected) ==
    LET lossl == s.model.lossl
    IN  IF lossl \notin DOMAIN s.losses THEN [s |-> Crash(s), r |-> FZero]
        ELSE IF s.losses[lossl].fwd # "ctensor_mse_fwd" THEN [s |-> Crash(s), r |-> FZero]
        ELSE ctensor_mse_fwd(Event(s, <<"loss_fwd", lossl>>), lossl, expected)

\* Lines 191-192 of ctensor_test, after the forward pass.
ctensor_test_loss(s, expected) ==
    IF ~Ok(s) THEN [s |-> s, r |-> FZero] ELSE CallLossFwd(s, expected)

ctensor_test(s, input, expected) == ctensor_test_loss(ForwardPass(s, input), expected)

RECURSIVE ctensor_mse_bckp_loop(_, _, _, _, _, _, _)
ctensor_mse_bckp_loop(s, expected, output, in_grad, c, n, i) ==
    IF ~Ok(s) \/ i >= n THEN s
    ELSE ctensor_mse_bckp_loop(
             Wr(NoteRd(NoteRd(s, expected, i), output, i), in_grad, i,
                FMul(c, FSub(Rd(s, expected, i), Rd(s, output, i)))),
             expected, output, in_grad, c, n, i + 1)

\* The earlier revision of ctensor_mse_bckp (lib/loss.c, lines 54-68): the
\* output is taken through layer->prev, the sizes from expected, c = 2/n.
ctensor_mse_bckp_earlier(s, layer, expected) ==
    LET prev == s.losses[layer].prev
    IN  IF ~IsLayer(s, prev) \/ ~IsTensor(s, s.layers[prev].out)
           \/ ~IsTensor(s, s.losses[layer].in_grad)
        THEN Crash(s)
        ELSE LET output == s.tens[s.layers[prev].out]
                 in_grad == s.tens[s.losses[layer].in_grad]
                 c == FDiv(FInt(2), FInt(s.tens[expected].size))
             IN  ctensor_mse_bckp_loop(s, s.tens[expected].data, output.data,
                                       in_grad.data, c, s.tens[expected].size, 0)

ctensor_mse_bckp(s, layer, expected) ==
    IF ~IsTensor(s, s.losses[layer].in) \/ ~IsTensor(s, s.losses[layer].in_grad)
    THEN Crash(s)
    ELSE LET output == s.tens[s.losses[layer].in]
             in_grad == s.tens[s.losses[layer].in_grad]
             c == FDiv(FInt(-2), FInt(output.size))
         IN  ctensor_mse_bckp_loop(s, s.tens[expected].data, output.data,
                                   in_grad.data, c, output.size, 0)

\* lossl->bckp(lossl, y_train)
CallLossBckp(s, expected) ==
    LET lossl == s.model.lossl
    IN  IF lossl \notin DOMAIN s.losses THEN Crash(s)
        ELSE IF s.losses[lossl].bckp # "ctensor_mse_bckp" THEN Crash(s)
        ELSE ctensor_mse_bckp(Event(s, <<"loss_bckp", lossl>>), lossl, expected)

(***************************************************************************)
(* Backward and update callbacks.                                          *)
(***************************************************************************)
\* Body of the j loop of ctensor_fcl_bckp for output unit i.
RECURSIVE ctensor_fcl_bckp_row(_, _, _, _, _, _, _, _, _, _)
ctensor_fcl_bckp_row(s, in_data, kernel_data, in_grad, loss_grad, kernel_grad, in_size, out_size, i, j) ==
    IF ~Ok(s) \/ j >= in_size THEN s
    ELSE
    LET s1 == NoteRd(NoteRd(s, in_data, j), loss_grad, i)
        s2 == Wr(s1, kernel_grad, i * out_size + j,
                 FMul(Rd(s1, in_data, j), Rd(s1, loss_grad, i)))
        s3 == NoteRd(NoteRd(NoteRd(s2, in_grad, j), kernel_data, i * out_size + j),
                     loss_grad, i)
        s4 == Wr(s3, in_grad, j,
                 FAdd(Rd(s3, in_grad, j),
                      FMul(Rd(s3, kernel_data, i * out_size + j), Rd(s3, loss_grad, i))))
    IN  ctensor_fcl_bckp_row(s4, in_data, kernel_data, in_grad, loss_grad, kernel_grad,
                             in_size, out_size, i, j + 1)

RECURSIVE ctensor_fcl_bckp_rows(_, _, _, _, _, _, _, _, _, _)
ctensor_fcl_bckp_rows(s, in_data, kernel_data, in_grad, loss_grad, kernel_grad, bias_grad, in_size, out_size, i) ==
    IF ~Ok(s) \/ i >= out_size THEN s
    ELSE
    LET s1 == ctensor_fcl_bckp_row(s, in_data, kernel_data, in_grad, loss_grad,
                                   kernel_grad, in_size, out_size, i, 0)
        s2 == Wr(NoteRd(s1, loss_grad, i), bias_grad, i, Rd(s1, loss_grad, i))
    IN  ctensor_fcl_bckp_rows(s2, in_data, kernel_data, in_grad, loss_grad, kernel_grad,
                              bias_grad, in_size, out_size, i + 1)

\* A backward pass that accumulates into in_grad as it finds it.
ctensor_fcl_bckp_no_zero(s, layer) ==
    LET L == s.layers[layer]
    IN  IF ~FclWired(s, layer) \/ ~IsTensor(s, L.in_grad) \/ ~IsTensor(s, L.loss_grad)
           \/ ~IsTensor(s, L.internal_grad)
        THEN Crash(s)
        ELSE
        LET in_size == s.tens[L.in].size
            out_size == s.tens[L.out].size
            in_data == s.tens[L.in].data
            kernel_data == s.tens[s.fcls[L.internal].kernel].data
            in_grad == s.tens[L.in_grad].data
            loss_grad == s.tens[L.loss_grad].data
            kernel_grad == s.tens[L.internal_grad].data
            bias_grad == Advance(kernel_grad, out_size * in_size)
        IN  ctensor_fcl_bckp_rows(s, in_data, kernel_data, in_grad, loss_grad,
                                  kernel_grad, bias_grad, in_size, out_size, 0)

ctensor_fcl_bckp(s, layer) ==
    LET L == s.layers[layer]
    IN  IF ~FclWired(s, layer) \/ ~IsTensor(s, L.in_grad) \/ ~IsTensor(s, L.loss_grad)
           \/ ~IsTensor(s, L.internal_grad)
        THEN Crash(s)
        ELSE
        LET in_size == s.tens[L.in].size
            out_size == s.tens[L.out].size
            in_data == s.tens[L.in].data
            kernel_data == s.tens[s.fcls[L.internal].kernel].data
            in_grad == s.tens[L.in_grad].data
            loss_grad == s.tens[L.loss_grad].data
            kernel_grad == s.tens[L.internal_grad].data
            bias_grad == Advance(kernel_grad, out_size * in_size)
            s1 == ZeroLoop(s, in_grad, in_size, 0)
        IN  ctensor_fcl_bckp_rows(s1, in_data, kernel_data, in_grad, loss_grad,
                                  kernel_grad, bias_grad, in_size, out_size, 0)

\* A backward loop that lets the gradient through at an input of exactly zero.
RECURSIVE ctensor_relu_bckp_loop_lt(_, _, _, _, _, _)
ctensor_relu_bckp_loop_lt(s, in, out, loss, n, i) ==
    IF ~Ok(s) \/ i >= n THEN s
    ELSE LET s1 == NoteRd(s, in, i)
         IN  ctensor_relu_bckp_loop_lt(
                 IF FLt(Rd(s1, in, i), FZero) THEN Wr(s1, out, i, FZero)
                 ELSE Wr(NoteRd(s1, loss, i), out, i, Rd(s1, loss, i)),
                 in, out, loss, n, i + 1)

RECURSIVE ctensor_relu_bckp_loop(_, _, _, _, _, _)
ctensor_relu_bckp_loop(s, in, out, loss, n, i) ==
    IF ~Ok(s) \/ i >= n THEN s
    ELSE LET s1 == NoteRd(s, in, i)
         IN  ctensor_relu_bckp_loop(
                 IF FLe(Rd(s1, in, i), FZero) THEN Wr(s1, out, i, FZero)
                 ELSE Wr(NoteRd(s1, loss, i), out, i, Rd(s1, loss, i)),
                 in, out, loss, n, i + 1)

ctensor_relu_bckp(s, layer) ==
    LET L == s.layers[layer]
    IN  IF ~IsTensor(s, L.in) \/ ~IsTensor(s, L.in_grad) \/ ~IsTensor(s, L.loss_grad)
        THEN Crash(s)
        ELSE ctensor_relu_bckp_loop(s, s.tens[L.in].data, s.tens[L.in_grad].data,
                                    s.tens[L.loss_grad].data, s.tens[L.in].size, 0)

\* An update that takes the bias gradient from the start of internal_grad.
ctensor_fcl_update_no_offset(s, layer) ==
    LET L == s.layers[layer]
    IN  IF ~FclWired(s, layer) \/ ~IsTensor(s, L.internal_grad) THEN Crash(s)
        ELSE
        LET internal_grad == s.tens[L.internal_grad].data
            data == s.fcls[L.internal]
            kernel == s.tens[data.kernel].data
            bias == s.tens[data.bias].data
            s1 == ctensor_vector_sum(s, kernel, s.tens[data.kernel].size, internal_grad, kernel)
        IN  ctensor_vector_sum(s1, bias, s1.tens[data.bias].size, internal_grad, bias)

ctensor_fcl_update(s, layer) ==
    LET L == s.layers[layer]
    IN  IF ~FclWired(s, layer) \/ ~IsTensor(s, L.internal_grad) THEN Crash(s)
        ELSE
        LET internal_grad == s.tens[L.internal_grad].data
            data == s.fcls[L.internal]
            kernel == s.tens[data.kernel].data
            bias == s.tens[data.bias].data
            offset == s.tens[data.kernel].size
            s1 == ctensor_vector_sum(s, kernel, s.tens[data.kernel].size, internal_grad, kernel)
        IN  ctensor_vector_sum(s1, bias, s1.tens[data.bias].size,
                               Advance(internal_grad, offset), bias)

\* pos->bckp(pos)
CallBckp(s, pos) ==
    LET cb == s.layers[pos].bckp
        s1 == Event(s, <<"bckp", pos>>)
    IN  IF cb = "ctensor_fcl_bckp" THEN ctensor_fcl_bckp(s1, pos)
        ELSE IF cb = "ctensor_relu_bckp" THEN ctensor_relu_bckp(s1, pos)
        ELSE Crash(s)

\* pos->update(pos)
CallUpdate(s, pos) ==
    LET cb == s.layers[pos].update
        s1 == Event(s, <<"update", pos>>)
    IN  IF cb = "ctensor_fcl_update" THEN ctensor_fcl_update(s1, pos)
        ELSE Crash(s)

(***************************************************************************)
(* Adam.                                                                   *)
(***************************************************************************)
\* 1e-7
AdamEps == FDiv(FInt(1), FInt(10000000))

RECURSIVE _ct_adam(_, _, _, _, _, _, _, _, _, _)
_ct_adam(s, grad, grad_size, m, v, b1, b2, lr, t, i) ==
    IF ~Ok(s) \/ i >= grad_size THEN s
    ELSE
    LET s0 == NoteRd(NoteRd(NoteRd(s, grad, i), m, i), v, i)
        g == Rd(s0, grad, i)
        mi == FAdd(FMul(b1, Rd(s0, m, i)), FMul(FSub(FOne, b1), g))
        vi == FAdd(FMul(b2, Rd(s0, v, i)), FMul(FSub(FOne, b2), FMul(g, g)))
        mb == FDiv(mi, FSub(FOne, FPow(b1, t)))
        vb == FDiv(vi, FSub(FOne, FPow(b2, t)))
        s1 == Wr(Wr(s0, m, i, mi), v, i, vi)
        s2 == Wr(s1, grad, i, FDiv(FMul(FNeg(lr), mb), FAdd(FSqrt(vb), AdamEps)))
    IN  _ct_adam(s2, grad, grad_size, m, v, b1, b2, lr, t, i + 1)

_ct_adam_opt_set_m(r, data) ==
    ctensor_tensor_zeros([r.s EXCEPT !.adams[data].m = r.p], r.p)

_ct_adam_opt_set_v(r, data) ==
    ctensor_tensor_zeros([r.s EXCEPT !.adams[data].v = r.p], r.p)

\* Lines 66-69: the first moment tensor, made on first use.
_ct_adam_opt_m(s, data, grad) ==
    IF s.adams[data].m # NullPtr THEN s
    ELSE _ct_adam_opt_set_m(ctensor_new_tensor(s, s.tens[grad].size), data)

\* Lines 71-74: the second moment tensor.
_ct_adam_opt_v(s, data, grad) ==
    IF s.adams[data].v # NullPtr THEN s
    ELSE _ct_adam_opt_set_v(ctensor_new_tensor(s, s.tens[grad].size), data)

\* A step that increments the counter before it reads it (t = ++data->t).
_ct_adam_opt_run_preinc(s, data, grad, learning_rate) ==
    LET s3 == [s EXCEPT !.adams[data].t = @ + 1]
    IN  IF ~Ok(s) THEN s3
        ELSE _ct_adam(s3, s.tens[grad].data, s.tens[grad].size,
                      s.tens[s.adams[data].m].data, s.tens[s.adams[data].v].data,
                      s.adams[data].b1, s.adams[data].b2, learning_rate,
                      s3.adams[data].t, 0)

\* Lines 76-79: t = data->t++, then the update itself.
_ct_adam_opt_run(s, data, grad, learning_rate) ==
    LET s3 == [s EXCEPT !.adams[data].t = @ + 1]
    IN  IF ~Ok(s) THEN s3
        ELSE _ct_adam(s3, s.tens[grad].data, s.tens[grad].size,
                      s.tens[s.adams[data].m].data, s.tens[s.adams[data].v].data,
                      s.adams[data].b1, s.adams[data].b2, learning_rate,
                      s.adams[data].t, 0)

_ct_adam_opt(s, layer, grad, learning_rate) ==
    IF s.opts[layer].internal \notin DOMAIN s.adams \/ ~IsTensor(s, grad) THEN Crash(s)
    ELSE _ct_adam_opt_run(
             _ct_adam_opt_v(_ct_adam_opt_m(s, s.opts[layer].internal, grad),
                            s.opts[layer].internal, grad),
             s.opts[layer].internal, grad, learning_rate)

\* model->optimizer->opt(model->optimizer, avg_grad, model->learning_rate)
CallOpt(s, grad) ==
    LET o == s.model.optimizer
    IN  IF o \notin DOMAIN s.opts THEN Crash(s)
        ELSE IF s.opts[o].opt # "_ct_adam_opt" THEN Crash(s)
        ELSE _ct_adam_opt(Event(s, <<"opt", o>>), o, grad, s.model.learning_rate)

(***************************************************************************)
(* Training internals and ctensor_destroy (lib/models.c).                  *)
(***************************************************************************)
\* Lines 213-217: add the layer's internal_grad into the current slice of
\* grad and move grad->data past it.
_ct_do_bckp_sum(s, grad, ig) ==
    IF ~IsTensor(s, ig) THEN Crash(s)
    ELSE [ctensor_vector_sum(Slice(s, "sum", grad, ig), s.tens[ig].data, s.tens[ig].size,
                             s.tens[grad].data, s.tens[grad].data)
             EXCEPT !.tens[grad].data = Advance(@, s.tens[ig].size)]

RECURSIVE _ct_do_bckp_walk(_, _, _)
\* After pos->bckp(pos).
_ct_do_bckp_next(s, grad, pos) ==
    IF ~Ok(s) THEN s
    ELSE IF s.layers[pos].internal_grad = NullPtr
    THEN _ct_do_bckp_walk(s, grad, s.layers[pos].prev)
    ELSE _ct_do_bckp_walk(_ct_do_bckp_sum(s, grad, s.layers[pos].internal_grad),
                          grad, s.layers[pos].prev)

\* A walk that steps over a layer without a backward callback.
_ct_do_bckp_walk_skip(s, grad, pos) ==
    IF pos = NullPtr \/ ~Ok(s) THEN s
    ELSE IF ~IsLayer(s, pos) THEN Crash(s)
    ELSE IF s.layers[pos].bckp = "NULL" THEN _ct_do_bckp_walk(s, grad, s.layers[pos].prev)
    ELSE _ct_do_bckp_next(CallBckp(s, pos), grad, pos)

_ct_do_bckp_walk(s, grad, pos) ==
    IF pos = NullPtr \/ ~Ok(s) THEN s
    ELSE IF ~IsLayer(s, pos) THEN Crash(s)
    ELSE IF s.layers[pos].bckp = "NULL" THEN s
    ELSE _ct_do_bckp_next(CallBckp(s, pos), grad, pos)

\* grad->data -= grad_size
Rewind(s, grad, grad_size) ==
    IF ~Ok(s) THEN s
    ELSE [s EXCEPT !.tens[grad].data = Advance(@, -grad_size)]

_ct_do_bckp(s, grad) ==
    Rewind(_ct_do_bckp_walk(s, grad, s.model.lastl), grad, s.tens[grad].size)

RECURSIVE CopyLoop(_, _, _, _, _)
CopyLoop(s, dst, src, n, i) ==
    IF ~Ok(s) \/ i >= n THEN s
    ELSE CopyLoop(Wr(NoteRd(s, src, i), dst, i, Rd(s, src, i)), dst, src, n, i + 1)

\* A copy that leaves grad->data where it was.
_ct_grad_update_copy_in_place(s, grad, ig) ==
    CopyLoop(Slice(s, "copy", grad, ig), s.tens[ig].data, s.tens[grad].data,
             s.tens[ig].size, 0)

\* Lines 246-250: copy the slice into internal_grad and move grad->data on.
_ct_grad_update_copy(s, grad, ig) ==
    [CopyLoop(Slice(s, "copy", grad, ig), s.tens[ig].data, s.tens[grad].data,
              s.tens[ig].size, 0)
        EXCEPT !.tens[grad].data = Advance(@, s.tens[ig].size)]

RECURSIVE _ct_grad_update_walk(_, _, _)
\* After pos->update(pos).
_ct_grad_update_next(s, grad, pos) ==
    _ct_grad_update_walk(s, grad, s.layers[pos].prev)

_ct_grad_update_walk(s, grad, pos) ==
    IF pos = NullPtr \/ ~Ok(s) THEN s
    ELSE IF ~IsLayer(s, pos) THEN Crash(s)
    ELSE IF s.layers[pos].internal_grad = NullPtr
    THEN _ct_grad_update_walk(s, grad, s.layers[pos].prev)
    ELSE IF ~IsTensor(s, s.layers[pos].internal_grad) THEN Crash(s)
    ELSE _ct_grad_update_next(
             CallUpdate(_ct_grad_update_copy(s, grad, s.layers[pos].internal_grad), pos),
             grad, pos)

_ct_grad_update(s, grad) ==
    Rewind(_ct_grad_update_walk(s, grad, s.model.lastl), grad, s.tens[grad].size)

RECURSIVE _ct_get_model_param_size_walk(_, _, _)
_ct_get_model_param_size_walk(s, pos, size) ==
    IF pos = NullPtr \/ size < 0 THEN size
    ELSE LET ig == s.layers[pos].internal_grad
         IN  _ct_get_model_param_size_walk(s, s.layers[pos].next,
                 IF ig = NullPtr THEN size
                 ELSE IF IsTensor(s, ig) THEN size + s.tens[ig].size
                 ELSE -1)

\* The total size of the internal_grad tensors, head to tail (-1: the walk
\* went through a wild pointer).
_ct_get_model_param_size(s) ==
    _ct_get_model_param_size_walk(s, s.layers[s.model.startl].next, 0)

\* Lines 203-209 of ctensor_fcl_del without the final free(data).
ctensor_fcl_del_data_leak(s, data) ==
    Then(Then(ctensor_destroy_tensor(s, s.fcls[data].kernel),
              LAMBDA t : ctensor_destroy_tensor(t, t.fcls[data].bias)),
         LAMBDA t : [t EXCEPT !.fcls[data].kernel = NullPtr,
                              !.fcls[data].bias = NullPtr])

\* Lines 203-209: the kernel, the bias, and the _fcl_s struct itself.
ctensor_fcl_del_data(s, data) ==
    Then(Then(ctensor_destroy_tensor(s, s.fcls[data].kernel),
              LAMBDA t : ctensor_destroy_tensor(t, t.fcls[data].bias)),
         LAMBDA t : Free([t EXCEPT !.fcls[data].kernel = NullPtr,
                                   !.fcls[data].bias = NullPtr], data))

\* Lines 198-201: data = layer->internal, once internal_grad is gone.
ctensor_fcl_del_internal(s, layer) ==
    IF ~Ok(s) THEN s
    ELSE IF s.layers[layer].internal \notin DOMAIN s.fcls THEN Crash(s)
    ELSE ctensor_fcl_del_data(s, s.layers[layer].internal)

ctensor_fcl_del(s, layer) ==
    ctensor_fcl_del_internal(
        [ctensor_destroy_tensor(s, s.layers[layer].internal_grad)
            EXCEPT !.layers[layer].internal_grad = NullPtr],
        layer)

\* Lines 90-93: the moment tensors and the _adam_s struct.
_ct_adam_destroy_data(s, data) ==
    Then(Then(ctensor_destroy_tensor(s, s.adams[data].m),
              LAMBDA t : ctensor_destroy_tensor(t, t.adams[data].v)),
         LAMBDA t : Free(t, data))

_ct_adam_destroy(s, layer) ==
    IF s.opts[layer].internal \notin DOMAIN s.adams THEN Crash(s)
    ELSE _ct_adam_destroy_data(s, s.opts[layer].internal)

\* pos->del(pos)
CallDel(s, pos) ==
    IF s.layers[pos].del = "ctensor_fcl_del"
    THEN ctensor_fcl_del(Event(s, <<"del", pos>>), pos)
    ELSE Crash(s)

\* Lines 380-386: in_grad, then out (the start layer's out is a bare struct).
ctensor_destroy_layer_tensors(s, pos) ==
    Then(ctensor_destroy_tensor(s, s.layers[pos].in_grad),
         LAMBDA t : IF t.layers[pos].prev = NullPtr
                    THEN Free(t, t.layers[pos].out)
                    ELSE ctensor_destroy_tensor(t, t.layers[pos].out))

\* Lines 377-378.
ctensor_destroy_layer_del(s, pos) ==
    IF s.layers[pos].del # "NULL" THEN CallDel(s, pos) ELSE s

RECURSIVE ctensor_destroy_walk(_, _)
ctensor_destroy_walk(s, pos) ==
    IF pos = NullPtr \/ ~Ok(s) THEN s
    ELSE IF ~IsLayer(s, pos) THEN Crash(s)
    ELSE Then(Then(ctensor_destroy_layer_del(s, pos),
                   LAMBDA t : ctensor_destroy_layer_tensors(t, pos)),
              LAMBDA t : ctensor_destroy_walk(Free(t, pos), t.layers[pos].prev))

\* Lines 395-398.
ctensor_destroy_loss(s) ==
    IF s.model.lossl = NullPtr THEN s
    ELSE IF s.model.lossl \notin DOMAIN s.losses THEN Crash(s)
    ELSE Then(ctensor_destroy_tensor(s, s.losses[s.model.lossl].in_grad),
              LAMBDA t : Free(t, t.model.lossl))

\* Lines 400-405.
ctensor_destroy_optimizer(s) ==
    IF s.model.optimizer = NullPtr THEN s
    ELSE IF s.model.optimizer \notin DOMAIN s.opts THEN Crash(s)
    ELSE IF s.opts[s.model.optimizer].del # "_ct_adam_destroy" THEN Crash(s)
    ELSE Then(_ct_adam_destroy(Event(s, <<"opt_del", s.model.optimizer>>),
                               s.model.optimizer),
              LAMBDA t : Free(t, t.model.optimizer))

ctensor_destroy(s) ==
    Then(Then(ctensor_destroy_walk(s, s.model.lastl), ctensor_destroy_loss),
         ctensor_destroy_optimizer)

(***************************************************************************)
(* The caller.                                                             *)
(***************************************************************************)
\* Addresses of the caller's CTensor_s structs.
InputT == -20
ExpectedT == -21
XTrainT == -22
YTrainT == -23
XTestT == -24
YTestT == -25

\* The data the caller supplies: vector number p of length n.
DataTable == <<2, -1, 1, -2, 3, 1, -1, 2>>

DataVec(p, n) == [i \in 1..n |-> FInt(DataTable[((i + p - 2) % Len(DataTable)) + 1])]

DataChoices == 1..2

\* The caller's tensor t over buffer blk holding data d.
WithCallerTensor(s, t, blk, d) ==
    [s EXCEPT !.tens = Upd(@, t, [size |-> Len(d), data |-> [blk |-> blk, off |-> 0]]),
              !.mem = Upd(@, blk, d)]

InSize(s) == s.tens[s.layers[s.model.startl].out].size

OutSize(s) == s.tens[s.layers[s.model.lastl].out].size

\* The sizes the caller gave to ctensor_init and to the last ctensor_add_layer:
\* its tensors are made to fit them.
CallerInSize == hist.in_size

CallerOutSize == IF hist.outs = <<>> THEN hist.in_size ELSE hist.outs[Len(hist.outs)]

Idle == train.pc = "idle"

\* The caller initialises the parameters of an FCL layer right after adding it.
ParamPending ==
    /\ hist.last = "add_layer"
    /\ model.lastl \in DOMAIN layers
    /\ layers[model.lastl].fwd = "ctensor_fcl_fwd"

Building == hist.phase = "build" /\ status = "ok" /\ ~ParamPending

InUse == hist.phase \in {"build", "use"} /\ status = "ok" /\ Idle /\ ~ParamPending

NoTrain == [pc |-> "idle"]

\* What the platform does where the C standard leaves it open: the contents
\* of fresh heap memory and of an uncleared model struct, and malloc(0).
Envs(dot) ==
    {[junk |-> FZero, malloc0null |-> FALSE, zeroed |-> TRUE, dot |-> dot],
     [junk |-> FInt(3), malloc0null |-> TRUE, zeroed |-> FALSE, dot |-> dot]}

InitWith(dot) ==
    /\ env \in Envs(dot)
    /\ model = LET p0 == IF env.zeroed THEN NullPtr ELSE WildPtr
               IN  [startl |-> p0, lastl |-> p0, lossl |-> p0, optimizer |-> p0,
                    epochs |-> 0, batch_size |-> 0, batches |-> 0,
                    learning_rate |-> FZero]
    /\ layers = <<>>
    /\ tens = <<>>
    /\ mem = <<>>
    /\ fcls = <<>>
    /\ losses = <<>>
    /\ opts = <<>>
    /\ adams = <<>>
    /\ heap = <<>>
    /\ oob = {}
    /\ oom = FALSE
    /\ log = <<>>
    /\ slices = <<>>
    /\ status = "ok"
    /\ hist = [phase |-> "new", nlayers |-> 0, loss |-> FALSE, opt |-> FALSE,
               trained |-> FALSE, uses |-> 0, last |-> "none", in_size |-> 0, outs |-> <<>>]
    /\ train = NoTrain
    /\ ret = NullPtr
    /\ rand = NoRand

Init == InitWith("scalar")

(***************************************************************************)
(* Construction calls.  The caller builds the model first (phase "build")  *)
(* and then uses it (phase "use"); it sets the loss at most once, at any   *)
(* point of the construction, and the optimizer as the last step of it.    *)
(***************************************************************************)
CtensorInit(in_size, fail) ==
    /\ hist.phase = "new"
    /\ Commit(ctensor_init(State(fail), in_size))
    /\ hist' = [hist EXCEPT !.phase = "build", !.last = "init", !.in_size = in_size]
    /\ ret' = NullPtr
    /\ UNCHANGED train

\* ctensor_add_layer has left state s; it returns the new layer.
AddLayerDone(s) ==
    /\ Commit(s)
    /\ ret' = s.model.lastl

AddLayer(out_size, kind, fail) ==
    /\ Building
    /\ hist.nlayers < MaxLayers
    /\ AddLayerDone(ctensor_add_layer(State(fail), out_size, kind))
    /\ hist' = [hist EXCEPT !.nlayers = @ + 1, !.last = "add_layer",
                             !.outs = Append(@, out_size)]
    /\ UNCHANGED train

SetLossDone(s) ==
    /\ Commit(s)
    /\ ret' = s.model.lossl

SetLoss(fail) ==
    /\ Building
    /\ ~hist.loss
    /\ SetLossDone(ctensor_set_loss(State(fail)))
    /\ hist' = [hist EXCEPT !.loss = TRUE, !.last = "set_loss"]
    /\ UNCHANGED train

SetOptimizerDone(s) ==
    /\ Commit(s)
    /\ ret' = s.model.optimizer

SetOptimizer(fail) ==
    /\ Building
    /\ ~hist.opt
    /\ SetOptimizerDone(ctensor_set_optimizer(State(fail)))
    /\ hist' = [hist EXCEPT !.opt = TRUE, !.phase = "use", !.last = "set_optimizer"]
    /\ UNCHANGED train

\* The weights a seed produces (stands for the He-initialised normal draws).
SeedWeight(seed, k) == IF (k + seed) % 2 = 0 THEN FOne ELSE FDiv(FInt(-1), FInt(2))

MaxSeed == 1

\* "Performs the Xavier-He init for the weights and a zero init for the bias."
ctensor_fcl_param_init(s, layer, seed) ==
    IF ~FclWired(s, layer) THEN Crash(s)
    ELSE LET data == s.fcls[s.layers[layer].internal]
             kernel == s.tens[data.kernel]
             s1 == [s EXCEPT !.mem[kernel.data.blk] =
                        [k \in 1..kernel.size |-> SeedWeight(seed, k - 1)]]
         IN  ctensor_tensor_zeros(s1, data.bias)

\* The caller initialises the parameters of the FCL layer it has just added.
ParamInit(seed) ==
    /\ hist.phase = "build" /\ status = "ok"
    /\ ParamPending
    /\ Commit(ctensor_fcl_param_init(State(0), model.lastl, seed))
    /\ hist' = [hist EXCEPT !.last = "param_init"]
    /\ ret' = NullPtr
    /\ UNCHANGED train

(***************************************************************************)
(* Use calls.  The caller's tensors live only as long as the call.  The     *)
(* caller makes at most MaxUses predict/test calls in a row, and trains     *)
(* before them if it trains.                                               *)
(***************************************************************************)
MaxUses == 2

CallerTensors == {InputT, ExpectedT, XTrainT, YTrainT, XTestT, YTestT}

CallerBlks == {InputBlk, ExpectedBlk, XTrainBlk, YTrainBlk, XTestBlk, YTestBlk}

Restrict(f, D) == [x \in D |-> f[x]]

DropCaller(s) ==
    [s EXCEPT !.tens = Restrict(@, DOMAIN @ \ CallerTensors),
              !.mem = Restrict(@, DOMAIN @ \ CallerBlks)]

\* The call has returned r.r and left state r.s; the caller's tensors go.
Returned(r) ==
    /\ Commit(DropCaller(r.s))
    /\ ret' = r.r

Predict(p) ==
    /\ InUse
    /\ hist.uses < MaxUses
    /\ Returned(ctensor_predict(
           WithCallerTensor(State(0), InputT, InputBlk, DataVec(p, CallerInSize)),
           InputT))
    /\ hist' = [hist EXCEPT !.phase = "use", !.uses = @ + 1, !.last = "predict"]
    /\ UNCHANGED train

Test(p) ==
    /\ InUse
    /\ hist.uses < MaxUses
    /\ Returned(ctensor_test(
           WithCallerTensor(
               WithCallerTensor(State(0), InputT, InputBlk, DataVec(p, CallerInSize)),
               ExpectedT, ExpectedBlk, DataVec(p + 1, CallerOutSize)),
           InputT, ExpectedT))
    /\ hist' = [hist EXCEPT !.phase = "use", !.uses = @ + 1, !.last = "test"]
    /\ UNCHANGED train

Destroy ==
    /\ InUse
    /\ Commit(ctensor_destroy(State(0)))
    /\ hist' = [hist EXCEPT !.phase = "destroyed", !.last = "destroy"]
    /\ ret' = NullPtr
    /\ UNCHANGED train


(***************************************************************************)
(* ctensor_train, one loop iteration per step.  train holds its locals:    *)
(* pc is the statement it stands at, elog the training losses of the       *)
(* examples of the current epoch, batch by batch (history).                *)
(***************************************************************************)
LearningRate == FDiv(FInt(1), FInt(2))

\* Lines 350-351: the parameter count and the avg_grad scratch tensor.
ctensor_train_enter(s) ==
    LET grad_size == _ct_get_model_param_size(s)
    IN  IF grad_size < 0 THEN [s |-> Crash(s), p |-> NullPtr]
        ELSE ctensor_new_tensor(s, grad_size)

\* The caller sets the hyperparameters and calls ctensor_train with x_train
\* and y_train holding nb batches of batch_size examples each.
TrainCall(epochs, batches, batch_size, nb) ==
    /\ InUse
    /\ ~hist.trained
    /\ hist.uses = 0
    /\ LET s0 == [State(0) EXCEPT !.model.epochs = epochs, !.model.batches = batches,
                                  !.model.batch_size = batch_size,
                                  !.model.learning_rate = LearningRate]
           s1 == WithCallerTensor(s0, XTrainT, XTrainBlk,
                                  DataVec(1, nb * batch_size * CallerInSize))
           s2 == WithCallerTensor(s1, YTrainT, YTrainBlk,
                                  DataVec(2, nb * batch_size * CallerOutSize))
           s3 == WithCallerTensor(s2, XTestT, XTestBlk, DataVec(3, CallerInSize))
           s4 == WithCallerTensor(s3, YTestT, YTestBlk, DataVec(4, CallerOutSize))
           r == ctensor_train_enter(s4)
       IN  /\ Commit(r.s)
           /\ train' = [pc |-> "batch_begin", epoch |-> 0, batch |-> 0, i |-> 0,
                        network_loss |-> env.junk, batch_loss |-> FZero,
                        avg_grad |-> r.p, in_s |-> 0, out_s |-> 0,
                        elog |-> <<>>]
    /\ hist' = [hist EXCEPT !.phase = "use", !.trained = TRUE, !.last = "train"]
    /\ ret' = NullPtr

Training(pc) == status = "ok" /\ train.pc = pc

\* _ct_train_batch, lines 287-294 (and "network_loss = 0.00" when the batch
\* is the first of its epoch).
TrainBatchBegin ==
    /\ Training("batch_begin")
    /\ LET s == State(0)
           wired == /\ IsLayer(s, s.model.lastl)
                    /\ IsTensor(s, s.layers[s.model.lastl].out)
           s1 == IF wired THEN ctensor_tensor_zeros(s, train.avg_grad) ELSE Crash(s)
       IN  /\ Commit(s1)
           /\ train' = [train EXCEPT
                  !.pc = "example", !.i = 0, !.batch_loss = FZero,
                  !.network_loss = IF train.batch = 0 THEN FZero ELSE @,
                  !.elog = IF train.batch = 0 THEN <<<<>>>> ELSE Append(@, <<>>),
                  !.in_s = IF wired THEN InSize(s) ELSE 0,
                  !.out_s = IF wired THEN OutSize(s) ELSE 0]
    /\ UNCHANGED <<hist, ret>>

\* Line 302: loss = ctensor_test(model, x_train, y_train), after vloss.
_ct_train_batch_loss(v) ==
    IF Ok(v.s) THEN ctensor_test(v.s, XTrainT, YTrainT) ELSE v

\* Lines 317-318: on to the next example of the batch.
_ct_train_batch_advance(s, in_s, out_s) ==
    IF ~Ok(s) THEN s
    ELSE [s EXCEPT !.tens[XTrainT].data = Advance(@, in_s),
                   !.tens[YTrainT].data = Advance(@, out_s)]

\* Lines 308-318, with l what ctensor_test returned for the training example.
_ct_train_batch_bckp(l, avg_grad, in_s, out_s) ==
    [s |-> _ct_train_batch_advance(
               Then(Then(l.s, LAMBDA t : CallLossBckp(t, YTrainT)),
                    LAMBDA t : _ct_do_bckp(t, avg_grad)),
               in_s, out_s),
     r |-> l.r]

\* An iteration that looks at the held-out pair after the training pair.
_ct_train_batch_example_test_last(s, avg_grad, in_s, out_s) ==
    LET l == ctensor_test(s, XTrainT, YTrainT)
        v == IF Ok(l.s) THEN ctensor_test(l.s, XTestT, YTestT) ELSE l
    IN  _ct_train_batch_bckp([s |-> v.s, r |-> l.r], avg_grad, in_s, out_s)

\* One iteration of the example loop, lines 296-319.
_ct_train_batch_example(s, avg_grad, in_s, out_s) ==
    _ct_train_batch_bckp(_ct_train_batch_loss(ctensor_test(s, XTestT, YTestT)),
                         avg_grad, in_s, out_s)

\* The iteration has left state e.s and the training loss e.r.
TrainExampleDone(e) ==
    /\ Commit(e.s)
    /\ train' = [train EXCEPT
           !.batch_loss = FAdd(@, e.r),
           !.elog[Len(train.elog)] = Append(@, e.r),
           !.i = @ + 1,
           !.pc = IF train.i + 1 < model.batch_size THEN "example" ELSE "batch_end"]

TrainExample ==
    /\ Training("example")
    /\ TrainExampleDone(_ct_train_batch_example(State(0), train.avg_grad,
                                                train.in_s, train.out_s))
    /\ UNCHANGED <<hist, ret>>

\* Lines 321-323: "Reset the pointers."
_ct_train_batch_reset(s) ==
    [s EXCEPT !.tens[XTrainT].data = Advance(@, -s.tens[XTrainT].size),
              !.tens[YTrainT].data = Advance(@, -s.tens[YTrainT].size)]

\* Line 325.
BatchAvg(batch_size) == FDiv(FOne, FInt(batch_size))

\* Line 330: average the summed gradients.
\* A batch end that hands the sum of the gradients to the optimizer as it is.
_ct_train_batch_avg_none(s, avg_grad) == s

_ct_train_batch_avg(s, avg_grad) ==
    ctensor_sv_mult(s, s.tens[avg_grad].data, s.tens[avg_grad].size,
                    BatchAvg(s.model.batch_size), s.tens[avg_grad].data)

\* The end of the batch with the parameter update before the optimizer step.
_ct_train_batch_end_update_first(s, avg_grad) ==
    Then(Then(_ct_train_batch_avg(_ct_train_batch_reset(s), avg_grad),
              LAMBDA t : _ct_grad_update(t, avg_grad)),
         LAMBDA t : CallOpt(t, avg_grad))

\* Lines 321-337: after the last example of the batch.
_ct_train_batch_end(s, avg_grad) ==
    Then(Then(_ct_train_batch_avg(_ct_train_batch_reset(s), avg_grad),
              LAMBDA t : CallOpt(t, avg_grad)),
         LAMBDA t : _ct_grad_update(t, avg_grad))

\* The epoch loss left as the sum of the batch losses.
EpochLoss_sum(network_loss, batch_loss, lastb, batches) ==
    FAdd(network_loss, batch_loss)

\* network_loss += batch_loss, and "network_loss /= model->batches" after
\* the last batch of the epoch (ctensor_train, lines 355-359).
EpochLoss(network_loss, batch_loss, lastb, batches) ==
    IF lastb THEN FDiv(FAdd(network_loss, batch_loss), FInt(batches))
    ELSE FAdd(network_loss, batch_loss)

\* The rest of _ct_train_batch, lines 321-339, and the loop bookkeeping of
\* ctensor_train, lines 353-360.
TrainBatchEnd ==
    /\ Training("batch_end")
    /\ Commit(_ct_train_batch_end(State(0), train.avg_grad))
    /\ LET batch_loss == FMul(train.batch_loss, BatchAvg(model.batch_size))
           lastb == train.batch + 1 >= model.batches
           laste == train.epoch + 1 >= model.epochs
       IN  train' = [train EXCEPT
                  !.batch_loss = batch_loss,
                  !.network_loss = EpochLoss(@, batch_loss, lastb, model.batches),
                  !.batch = IF lastb THEN 0 ELSE @ + 1,
                  !.epoch = IF lastb THEN @ + 1 ELSE @,
                  !.pc = IF lastb /\ laste THEN "return" ELSE "batch_begin"]
    /\ UNCHANGED <<hist, ret>>

\* Lines 362-364.
TrainReturn ==
    /\ Training("return")
    /\ Commit(DropCaller(ctensor_destroy_tensor(State(0), train.avg_grad)))
    /\ train' = NoTrain
    /\ ret' = train.network_loss
    /\ UNCHANGED hist

Next ==
    \/ \E n \in 1..MaxInSize : CtensorInit(n, 0)
    \/ \E n \in 1..MaxOutSize, k \in LayerKinds : AddLayer(n, k, 0)
    \/ SetLoss(0)
    \/ SetOptimizer(0)
    \/ \E seed \in 1..MaxSeed : ParamInit(seed)
    \/ \E p \in DataChoices : Predict(p)
    \/ Test(1)
    \/ \E e \in 1..MaxEpochs, b \in 1..MaxBatches, bs \in 1..MaxBatchSize :
           \E nb \in {1, b} : TrainCall(e, b, bs, nb)
    \/ TrainBatchBegin
    \/ TrainExample
    \/ TrainBatchEnd
    \/ TrainReturn
    \/ Destroy

Spec == Init /\ [][Next]_vars

\* The build whose ctensor_mv_dot_product is the non-SIMD one of the older
\* linear algebra file.
InitAccum == InitWith("accum")

SpecAccum == InitAccum /\ [][Next]_vars

\* The same calls where one malloc of one construction call may return NULL:
\* the f-th malloc of the call fails (f = 0: none does).  Training is with
\* the largest hyperparameters only.
MaxFail == 12

MayFail(f) == f > 0 => ~oom

NextOOM ==
    \/ \E n \in 1..MaxInSize, f \in 0..MaxFail : MayFail(f) /\ CtensorInit(n, f)
    \/ \E n \in 1..MaxOutSize, k \in LayerKinds, f \in 0..MaxFail :
           MayFail(f) /\ AddLayer(n, k, f)
    \/ \E f \in 0..MaxFail : MayFail(f) /\ SetLoss(f)
    \/ \E f \in 0..MaxFail : MayFail(f) /\ SetOptimizer(f)
    \/ \E seed \in 1..MaxSeed : ParamInit(seed)
    \/ \E p \in DataChoices : Predict(p)
    \/ Test(1)
    \/ TrainCall(MaxEpochs, MaxBatches, MaxBatchSize, 1)
    \/ TrainBatchBegin
    \/ TrainExample
    \/ TrainBatchEnd
    \/ TrainReturn
    \/ Destroy

SpecOOM == Init /\ [][NextOOM]_vars

\* The same calls where the caller also appends layers of its own kind.
NextCaller ==
    \/ Next
    \/ \E n \in 1..MaxOutSize : AddLayer(n, "frozen", 0)

SpecCaller == Init /\ [][NextCaller]_vars

(***************************************************************************)
(* A model that grows.  Nothing in the library ties the construction calls *)
(* to the time before the first ctensor_train: the caller may append a     *)
(* layer to a trained model, set the loss on the new last layer and train  *)
(* again with the optimizer it already has (phases "rebuild", "retrain").  *)
(***************************************************************************)
Rebuilding == hist.phase = "rebuild" /\ status = "ok" /\ Idle /\ ~ParamPending

AddLayerAgain(out_size, kind) ==
    /\ hist.phase = "use" /\ status = "ok" /\ Idle
    /\ hist.trained /\ hist.last = "train"
    /\ hist.nlayers < MaxLayers
    /\ AddLayerDone(ctensor_add_layer(State(0), out_size, kind))
    /\ hist' = [hist EXCEPT !.phase = "rebuild", !.nlayers = @ + 1,
                             !.last = "add_layer", !.outs = Append(@, out_size)]
    /\ UNCHANGED train

ParamInitAgain(seed) ==
    /\ hist.phase = "rebuild" /\ status = "ok"
    /\ ParamPending
    /\ Commit(ctensor_fcl_param_init(State(0), model.lastl, seed))
    /\ hist' = [hist EXCEPT !.last = "param_init"]
    /\ ret' = NullPtr
    /\ UNCHANGED train

SetLossAgain ==
    /\ Rebuilding
    /\ hist.last \in {"add_layer", "param_init"}
    /\ SetLossDone(ctensor_set_loss(State(0)))
    /\ hist' = [hist EXCEPT !.loss = TRUE, !.last = "set_loss"]
    /\ UNCHANGED train

\* The second ctensor_train call, on nb = batches batches of examples.
TrainAgain(epochs, batches, batch_size) ==
    /\ Rebuilding
    /\ LET s0 == [State(0) EXCEPT !.model.epochs = epochs, !.model.batches = batches,
                                  !.model.batch_size = batch_size,
                                  !.model.learning_rate = LearningRate]
           s1 == WithCallerTensor(s0, XTrainT, XTrainBlk,
                                  DataVec(1, batches * batch_size * CallerInSize))
           s2 == WithCallerTensor(s1, YTrainT, YTrainBlk,
                                  DataVec(2, batches * batch_size * CallerOutSize))
           s3 == WithCallerTensor(s2, XTestT, XTestBlk, DataVec(3, CallerInSize))
           s4 == WithCallerTensor(s3, YTestT, YTestBlk, DataVec(4, CallerOutSize))
           r == ctensor_train_enter(s4)
       IN  /\ Commit(r.s)
           /\ train' = [pc |-> "batch_begin", epoch |-> 0, batch |-> 0, i |-> 0,
                        network_loss |-> env.junk, batch_loss |-> FZero,
                        avg_grad |-> r.p, in_s |-> 0, out_s |-> 0,
                        elog |-> <<>>]
    /\ hist' = [hist EXCEPT !.phase = "retrain", !.last = "train"]
    /\ ret' = NullPtr

NextGrow ==
    \/ Next
    \/ \E n \in 1..MaxOutSize, k \in LayerKinds : AddLayerAgain(n, k)
    \/ \E seed \in 1..MaxSeed : ParamInitAgain(seed)
    \/ SetLossAgain
    \/ \E e \in 1..MaxEpochs, b \in 1..MaxBatches, bs \in 1..MaxBatchSize :
           TrainAgain(e, b, bs)

SpecGrow == Init /\ [][NextGrow]_vars

(***************************************************************************)
(* One layer on its own.  The callbacks are functions of the buffers they  *)
(* are handed, so they are also run on a model of one layer and a loss     *)
(* node whose buffers hold any values: the caller's input and expected     *)
(* output, the parameters, and the gradient arriving from the loss node.   *)
(***************************************************************************)
\* "return 0.00" of ctensor_mse_bckp.
ctensor_mse_bckp_return(s) == [s |-> s, r |-> FZero]

MaxUnitSteps == 3

\* A layer on its own is also taken wider than it is tall.
MaxUnitInSize == 3

UnitVals == {-1, 0, 2}

\* The vectors of length n over UnitVals.
UnitVecs(n) == [1..n -> {FInt(v) : v \in UnitVals}]

\* Parameters with a different value in every cell (k counts from 0).
UnitWeight(seed, k) == IF seed = 1 THEN FInt(k + 1) ELSE FInt(2 - k)

UnitSeeds == 1..2

\* The program state before ctensor_init, on platform e.
EmptyState(e) ==
    [env |-> e,
     model |-> LET p0 == IF e.zeroed THEN NullPtr ELSE WildPtr
               IN  [startl |-> p0, lastl |-> p0, lossl |-> p0, optimizer |-> p0,
                    epochs |-> 0, batch_size |-> 0, batches |-> 0,
                    learning_rate |-> FZero],
     layers |-> <<>>, tens |-> <<>>, mem |-> <<>>, fcls |-> <<>>, losses |-> <<>>,
     opts |-> <<>>, adams |-> <<>>, heap |-> <<>>, oob |-> {}, oom |-> FALSE,
     log |-> <<>>, slices |-> <<>>, status |-> "ok", failAt |-> 0]

\* ctensor_init(n); ctensor_add_layer(m, kind); ctensor_set_loss(mse).
UnitModel(e, n, m, kind) ==
    ctensor_set_loss(ctensor_add_layer(ctensor_init(EmptyState(e), n), m, kind))

\* The buffer of tensor t holds d.
Fill(s, t, d) == [s EXCEPT !.mem[s.tens[t].data.blk] = d]

\* The parameters of the layer, if it has any, come from seed.
UnitParams(s, layer, seed) ==
    IF s.layers[layer].internal \notin DOMAIN s.fcls THEN s
    ELSE LET data == s.fcls[s.layers[layer].internal]
         IN  Fill(Fill(s, data.kernel,
                       [k \in 1..s.tens[data.kernel].size |-> UnitWeight(seed, k - 1)]),
                  data.bias,
                  [k \in 1..s.tens[data.bias].size |-> UnitWeight(seed, k)])

\* The model with the start layer pointing at the caller's input x, the
\* caller's expected output y, and gradient g arriving from the loss node.
\* The initial states take g = y: the two are never read by the same
\* callback, and the backward pass of the loss overwrites g.
UnitState(e, n, m, kind, seed, x, y, g) ==
    LET s0 == UnitModel(e, n, m, kind)
        s1 == WithCallerTensor(WithCallerTensor(s0, InputT, InputBlk, x),
                               ExpectedT, ExpectedBlk, y)
        s2 == [s1 EXCEPT !.tens[s1.layers[s1.model.startl].out].data = s1.tens[InputT].data]
    IN  Fill(UnitParams(s2, s2.model.lastl, seed), s2.losses[s2.model.lossl].in_grad, g)

\* The variables hold state s.
Holds(s) ==
    /\ env = s.env
    /\ model = s.model
    /\ layers = s.layers
    /\ tens = s.tens
    /\ mem = s.mem
    /\ fcls = s.fcls
    /\ losses = s.losses
    /\ opts = s.opts
    /\ adams = s.adams
    /\ heap = s.heap
    /\ oob = s.oob
    /\ oom = s.oom
    /\ log = s.log
    /\ slices = s.slices
    /\ status = s.status

UnitInit ==
    \E e \in Envs("scalar"), n \in 1..MaxUnitInSize, m \in 1..MaxOutSize, kind \in LayerKinds,
       seed \in UnitSeeds :
        \E x \in UnitVecs(n), y \in UnitVecs(m) :
            /\ Holds(UnitState(e, n, m, kind, seed, x, y, y))
            /\ hist = [phase |-> "unit", nlayers |-> 1, loss |-> TRUE, opt |-> FALSE,
                       trained |-> FALSE, uses |-> 0, last |-> "none", in_size |-> n,
                       outs |-> <<m>>]
            /\ train = NoTrain
            /\ ret = NullPtr
            /\ rand = NoRand

UnitReady == hist.phase = "unit" /\ status = "ok" /\ hist.uses < MaxUnitSteps

UnitStep(what) == hist' = [hist EXCEPT !.uses = @ + 1, !.last = what]

\* layer->fwd(layer)
UnitFwd ==
    /\ UnitReady
    /\ Commit(CallFwd(State(0), model.lastl))
    /\ UnitStep("fwd")
    /\ UNCHANGED <<train, ret>>

\* layer->bckp(layer)
UnitBckp ==
    /\ UnitReady
    /\ Commit(CallBckp(State(0), model.lastl))
    /\ UnitStep("bckp")
    /\ UNCHANGED <<train, ret>>

\* lossl->fwd(lossl, expected)
UnitLossFwd ==
    /\ UnitReady
    /\ LET r == CallLossFwd(State(0), ExpectedT)
       IN  Commit(r.s) /\ ret' = r.r
    /\ UnitStep("loss_fwd")
    /\ UNCHANGED train

\* lossl->bckp(lossl, expected)
UnitLossBckp ==
    /\ UnitReady
    /\ LET r == ctensor_mse_bckp_return(CallLossBckp(State(0), ExpectedT))
       IN  Commit(r.s) /\ ret' = r.r
    /\ UnitStep("loss_bckp")
    /\ UNCHANGED train

\* layer->update(layer), for a layer that has parameters
UnitUpdate ==
    /\ UnitReady
    /\ layers[model.lastl].internal_grad # NullPtr
    /\ Commit(CallUpdate(State(0), model.lastl))
    /\ UnitStep("update")
    /\ UNCHANGED <<train, ret>>

UnitNext == UnitFwd \/ UnitBckp \/ UnitLossFwd \/ UnitLossBckp \/ UnitUpdate

SpecUnit == UnitInit /\ [][UnitNext]_vars

(***************************************************************************)
(* lib/random.c.  A uintN_t is the sequence of its N bits, the least       *)
(* significant first, so that every operation on it is modulo 2^N.         *)
(***************************************************************************)
\* The w-bit word of the number n, 0 <= n < 2^31.
Word(n, w) == SubSeq([i \in 1..w |-> IF i <= 31 THEN (n \div Pow2(i - 1)) % 2 ELSE 0], 1, w)

\* The word written as hexadecimal digits d, the most significant first.
HexWord(d) ==
    SubSeq([i \in 1..(4 * Len(d)) |->
                (d[Len(d) - ((i - 1) \div 4)] \div Pow2((i - 1) % 4)) % 2],
           1, 4 * Len(d))

\* The number held by a word of up to 30 bits.
RECURSIVE WordVal(_)
WordVal(a) == IF Len(a) = 0 THEN 0 ELSE a[1] + 2 * WordVal(Tail(a))

BXor(a, b) == SubSeq([i \in 1..Len(a) |-> (a[i] + b[i]) % 2], 1, Len(a))

BOr(a, b) == SubSeq([i \in 1..Len(a) |-> IF a[i] + b[i] > 0 THEN 1 ELSE 0], 1, Len(a))

\* x << r and x >> r
Shl(a, r) == SubSeq([i \in 1..Len(a) |-> IF i > r THEN a[i - r] ELSE 0], 1, Len(a))

Shr(a, r) == SubSeq([i \in 1..Len(a) |-> IF i + r <= Len(a) THEN a[i + r] ELSE 0], 1, Len(a))

\* Byte k (from 1, the least significant) of a word, and the word of bytes L.
ByteOf(a, k) == WordVal(SubSeq(a, 8 * k - 7, 8 * k))

FromBytes(L) ==
    SubSeq([i \in 1..(8 * Len(L)) |-> (L[((i - 1) \div 8) + 1] \div Pow2((i - 1) % 8)) % 2],
           1, 8 * Len(L))

\* The bytes k.. of the number whose byte columns are col, with carry c
\* into column k; the carry out of the last column is dropped.
RECURSIVE Carried(_, _, _)
Carried(col, k, c) ==
    IF k > Len(col) THEN <<>>
    ELSE <<(col[k] + c) % 256>> \o Carried(col, k + 1, (col[k] + c) \div 256)

\* a + b
BAdd(a, b) ==
    FromBytes(Carried([k \in 1..(Len(a) \div 8) |-> ByteOf(a, k) + ByteOf(b, k)], 1, 0))

\* Column k of the long multiplication a * b: the products of bytes i.. of a
\* with the bytes of b that land on it.
RECURSIVE Column(_, _, _, _)
Column(a, b, k, i) ==
    IF i > k THEN 0
    ELSE ByteOf(a, i) * ByteOf(b, k + 1 - i) + Column(a, b, k, i + 1)

\* a * b
BMul(a, b) ==
    FromBytes(Carried([k \in 1..(Len(a) \div 8) |-> Column(a, b, k, 1)], 1, 0))

\* #define ROTL(x, r) ((x << r) | (x >> (32 - r)))
ROTL(x, r) == BOr(Shl(x, r), Shr(x, 32 - r))

\* 0xbf58476d1ce4e5b9, 0x94d049bb133111eb and 0x9e3779b97f4a7c15
SplitMixMul1 == HexWord(<<11, 15, 5, 8, 4, 7, 6, 13, 1, 12, 14, 4, 14, 5, 11, 9>>)

SplitMixMul2 == HexWord(<<9, 4, 13, 0, 4, 9, 11, 11, 1, 3, 3, 1, 1, 1, 14, 11>>)

SplitMixInc == HexWord(<<9, 14, 3, 7, 7, 9, 11, 9, 7, 15, 4, 10, 7, 12, 1, 5>>)

\* The seed after the call and the two words it stores: res[0] = z >> 32,
\* res[1] = z & 0xffffffff.
splitmix64(x) ==
    LET z1 == BMul(BXor(x, Shr(x, 30)), SplitMixMul1)
        z2 == BMul(BXor(z1, Shr(z1, 27)), SplitMixMul2)
        z == BXor(z2, Shr(z2, 31))
    IN  [x |-> BAdd(x, SplitMixInc), res |-> <<SubSeq(z, 33, 64), SubSeq(z, 1, 32)>>]

\* "Fill the 128-bit state with randomness": state[0..3] from the seed.
SeedFill(seed) ==
    LET a == splitmix64(Word(seed, 64))
        b == splitmix64(a.x)
    IN  <<a.res[1], a.res[2], b.res[1], b.res[2]>>

\* The seeds the caller uses, and the states they give.
RandSeeds == 0..5

SeedStates == [seed \in RandSeeds |-> SeedFill(seed)]

SeedState(seed) == SeedStates[seed]

\* UINT32_C(0x3f800000)
FloatOneBits == HexWord(<<3, 15, 8, 0, 0, 0, 0, 0>>)

\* The fields of the IEEE 754 single that a 32-bit word is read as.
FloatSign(w) == w[32]

FloatExp(w) == WordVal(SubSeq(w, 24, 31))

FloatFrac(w) == WordVal(SubSeq(w, 1, 23))

\* "*res_f - 1.0" for a word read as a float: the exact value <<m, e>>,
\* m * 2^e (the exponent fields met here are close to 127).
FloatMinusOne(w) ==
    LET m == (1 - 2 * FloatSign(w)) * (Pow2(23) + FloatFrac(w))
        E == FloatExp(w)
    IN  IF E >= 127 THEN Strip(m * Pow2(E - 127) - Pow2(23), -23)
        ELSE Strip(m - Pow2(150 - E), E - 150)

\* A generator that advances the state first and takes the result from the
\* state it has left.
xoshiro128p_late(s) ==
    LET t == Shl(s[2], 9)
        s2 == BXor(s[3], s[1])
        s3 == BXor(s[4], s[2])
        s1 == BXor(s[2], s2)
        s0 == BXor(s[1], s3)
        res == BOr(Shr(BAdd(s0, ROTL(s3, 11)), 9), FloatOneBits)
    IN  [s |-> <<s0, s1, BXor(s2, t), ROTL(s3, 11)>>,
         res |-> res,
         r |-> FloatMinusOne(res)]

\* xoshiro128p(s): the state it leaves, the word res and the value returned.
xoshiro128p(s) ==
    LET res == BOr(Shr(BAdd(s[1], s[4]), 9), FloatOneBits)
        t == Shl(s[2], 9)
        s2 == BXor(s[3], s[1])
        s3 == BXor(s[4], s[2])
        s1 == BXor(s[2], s2)
        s0 == BXor(s[1], s3)
    IN  [s |-> <<s0, s1, BXor(s2, t), ROTL(s3, 11)>>,
         res |-> res,
         r |-> FloatMinusOne(res)]

\* Body applied to the value of v, with v worked out once.
With(v, Body(_)) == CHOOSE out \in {Body(d) : d \in {v}} : TRUE

\* The generator as a random call carries it: the state words, the word and
\* value of the last draw, the number of draws made, and the pairs tried by
\* the polar method (history).
Generator(state) ==
    [s |-> state, res |-> Word(0, 32), r |-> FZero, draws |-> 0, tries |-> <<>>,
     seed |-> -1]

\* One call of xoshiro128p(state).
DrawOf(g, d) == [g EXCEPT !.s = d.s, !.res = d.res, !.r = d.r, !.draws = @ + 1]

Draw(g) == With(xoshiro128p(g.s), LAMBDA d : DrawOf(g, d))

\* Lines 110-111 of ctensor_randu: tensor->data[i] = xoshiro128p(state).
RECURSIVE ctensor_randu_loop(_, _, _, _)
ctensor_randu_loop(s, tensor, i, g) ==
    IF ~Ok(s) \/ i >= s.tens[tensor].size THEN [s |-> s, g |-> g]
    ELSE With(Draw(g), LAMBDA d :
             With(Wr(s, s.tens[tensor].data, i, F(d.r[1], d.r[2])), LAMBDA s1 :
                 ctensor_randu_loop(s1, tensor, i + 1, d)))

ctensor_randu(s, tensor, seed) ==
    IF ~IsTensor(s, tensor) THEN [s |-> Crash(s), g |-> Generator(SeedState(seed))]
    ELSE ctensor_randu_loop(s, tensor, 0, Generator(SeedState(seed)))
\* ln 2, and logf(a) for a > 0: a = t * 2^k with 1 <= t < 2, and
\* ln t = 2 * atanh((t - 1) / (t + 1)) to the precision of the floats here.
Ln2 == F(2839, -12)

FLog(a) ==
    LET k == a[2] + BitLen(a[1]) - 1
        t == <<a[1], 1 - BitLen(a[1])>>
        z == FDiv(FSub(t, FOne), FAdd(t, FOne))
        z2 == FMul(z, z)
        series == FAdd(FOne, FMul(z2, FAdd(FDiv(FOne, FInt(3)),
                      FMul(z2, FAdd(FDiv(FOne, FInt(5)), FDiv(z2, FInt(7)))))))
    IN  FAdd(FMul(FInt(k), Ln2), FMul(FInt(2), FMul(z, series)))

\* "xoshiro128p(state) * 2.0 - 1.0" stored in a float.
RandnCoord(r) ==
    IF r[1] = 0 THEN FInt(-1) ELSE F(r[1] - Pow2(-(r[2] + 1)), r[2] + 1)

\* s = x*x + y*y, and whether the loop goes round again.
RandnTried(g, x, y, s) ==
    [g |-> [g EXCEPT !.tries = Append(@, [x |-> x, y |-> y, s |-> s,
                                          again |-> s = FZero \/ FLe(FOne, s)])],
     x |-> x, y |-> y, s |-> s, again |-> s = FZero \/ FLe(FOne, s)]

\* A pass that takes y from the first draw and x from the second.
RandnTry_swapped(g) ==
    With(Draw(g), LAMBDA a :
        With(Draw(a), LAMBDA b :
            With(<<RandnCoord(b.r), RandnCoord(a.r)>>, LAMBDA c :
                With(FAdd(FMul(c[1], c[1]), FMul(c[2], c[2])), LAMBDA s :
                    RandnTried(b, c[1], c[2], s)))))

\* One pass through the body of the do-while loop, lines 154-158.
RandnTry(g) ==
    With(Draw(g), LAMBDA a :
        With(Draw(a), LAMBDA b :
            With(<<RandnCoord(a.r), RandnCoord(b.r)>>, LAMBDA c :
                With(FAdd(FMul(c[1], c[1]), FMul(c[2], c[2])), LAMBDA s :
                    RandnTried(b, c[1], c[2], s)))))

\* do { ... } while ((s == 0) || (s >= 1));
RECURSIVE RandnPair(_)
RandnPair(g) == With(RandnTry(g), LAMBDA t : IF t.again THEN RandnPair(t.g) ELSE t)

\* s = sqrtf(-2.0 * logf(s) / s)
RandnChi(s) == FSqrt(FDiv(FMul(FInt(-2), FLog(s)), s))

\* The for loop of ctensor_randn, lines 136-182, with its locals x, y, s.
RECURSIVE ctensor_randn_loop(_, _, _, _, _, _, _)
ctensor_randn_loop(s, tensor, i, g, x, y, chi) ==
    IF ~Ok(s) \/ i >= s.tens[tensor].size THEN [s |-> s, g |-> g]
    ELSE IF i % 2 = 0
    THEN With(RandnPair(g), LAMBDA p :
             With(RandnChi(p.s), LAMBDA c :
                 With(Wr(s, s.tens[tensor].data, i, FMul(p.x, c)), LAMBDA s1 :
                     ctensor_randn_loop(s1, tensor, i + 1, p.g, p.x, p.y, c))))
    ELSE With(Wr(s, s.tens[tensor].data, i, FMul(y, chi)), LAMBDA s1 :
             ctensor_randn_loop(s1, tensor, i + 1, g, x, y, chi))

ctensor_randn(s, tensor, seed) ==
    IF ~IsTensor(s, tensor) THEN [s |-> Crash(s), g |-> Generator(SeedState(seed))]
    ELSE ctensor_randn_loop(s, tensor, 0, Generator(SeedState(seed)),
                            s.env.junk, s.env.junk, s.env.junk)

(***************************************************************************)
(* The random calls on their own: the caller has a tensor of n elements    *)
(* (ret) and fills it from a seed; xoshiro128p is also stepped on the      *)
(* states the fills leave and on states of other bit patterns (those on    *)
(* the one-element tensor).                                                *)
(***************************************************************************)
MaxRandN == 5

MaxRandSteps == 2

\* 0x00000000, 0xffffffff and 0x9e3779b9
RandWords ==
    {Word(0, 32), HexWord(<<15, 15, 15, 15, 15, 15, 15, 15>>),
     HexWord(<<9, 14, 3, 7, 7, 9, 11, 9>>)}

RandInit ==
    \E e \in Envs("scalar"), n \in 0..MaxRandN, w \in [1..4 -> RandWords] :
        LET t == ctensor_new_tensor(EmptyState(e), n)
        IN  /\ n = 1 \/ w = [k \in 1..4 |-> Word(0, 32)]
            /\ t.p # NullPtr
            /\ Holds(t.s)
            /\ hist = [phase |-> "rand", nlayers |-> 0, loss |-> FALSE, opt |-> FALSE,
                       trained |-> FALSE, uses |-> 0, last |-> "none", in_size |-> n,
                       outs |-> <<>>]
            /\ train = NoTrain
            /\ ret = t.p
            /\ rand = [Generator(w) EXCEPT !.draws = 0]

RandReady == hist.phase = "rand" /\ status = "ok" /\ hist.uses < MaxRandSteps

RandStep(what) ==
    /\ hist' = [hist EXCEPT !.uses = @ + 1, !.last = what]
    /\ UNCHANGED <<train, ret>>

\* xoshiro128p(state) on the state at hand.
Xoshiro ==
    /\ RandReady
    /\ CommitRand(State(0), [Draw(rand) EXCEPT !.draws = 1, !.tries = <<>>, !.seed = -1])
    /\ RandStep("xoshiro128p")

\* The call with this seed has left state r.s and generator r.g.
RandDone(r, seed) == CommitRand(r.s, [r.g EXCEPT !.seed = seed])

RandU(seed) ==
    /\ RandReady
    /\ RandDone(ctensor_randu(State(0), ret, seed), seed)
    /\ RandStep("randu")

RandN(seed) ==
    /\ RandReady
    /\ RandDone(ctensor_randn(State(0), ret, seed), seed)
    /\ RandStep("randn")

RandNext ==
    \/ Xoshiro
    \/ \E seed \in RandSeeds : RandU(seed)
    \/ \E seed \in RandSeeds : RandN(seed)

SpecRand == RandInit /\ [][RandNext]_vars

(***************************************************************************)
(* Properties.                                                             *)
(***************************************************************************)
Alive == hist.phase \in {"build", "use"}

\* The layers from the start layer on, following next.
RECURSIVE ChainFrom(_, _)
ChainFrom(l, fuel) ==
    IF l \notin DOMAIN layers \/ fuel = 0 THEN <<>>
    ELSE <<l>> \o ChainFrom(layers[l].next, fuel - 1)

LayerChain == ChainFrom(model.startl, MaxLayers + 2)

\* C1: once the model is initialised and layers are appended, the list has
\* the start layer and one layer per add_layer call; every non-start layer's
\* in is the very tensor that is its predecessor's out, every predecessor's
\* loss_grad is the very tensor that is its successor's in_grad, in_grad has
\* the size of in, and out has the out_size given to add_layer.
C1_LayerWiring ==
    Alive =>
        LET ch == LayerChain
        IN  /\ Len(ch) = hist.nlayers + 1
            /\ layers[ch[1]].prev = NullPtr
            /\ model.lastl = ch[Len(ch)]
            /\ tens[layers[ch[1]].out].size = hist.in_size
            /\ \A i \in 2..Len(ch) :
                   LET L == layers[ch[i]]
                       P == layers[ch[i - 1]]
                   IN  /\ L.prev = ch[i - 1]
                       /\ L.in = P.out
                       /\ P.loss_grad = L.in_grad
                       /\ L.in_grad \in DOMAIN tens /\ L.out \in DOMAIN tens
                       /\ L.in_grad # L.out /\ L.in_grad # L.in /\ L.out # L.in
                       /\ tens[L.in_grad].size = tens[L.in].size
                       /\ tens[L.out].size = hist.outs[i - 1]

\* Two layers of different widths have just been appended.
C1_Witness ==
    /\ hist.last = "add_layer" /\ hist.nlayers >= 2 /\ status = "ok"
    /\ hist.outs[1] # hist.in_size /\ hist.outs[2] # hist.outs[1]
    /\ ~hist.loss

\* C2: whenever a loss node has been set, in any interleaving of add_layer
\* and set_loss calls, the loss node refers to the current last layer:
\* loss.prev is model.lastl, loss.in is lastl.out, lastl.loss_grad is
\* loss.in_grad, and loss.in_grad has the size of lastl.out.
C2_LossTracksLastLayer ==
    (Alive /\ hist.loss) =>
        /\ model.lossl \in DOMAIN losses
        /\ LET loss == losses[model.lossl]
               lastl == layers[model.lastl]
           IN  /\ loss.prev = model.lastl
               /\ loss.in = lastl.out
               /\ lastl.loss_grad = loss.in_grad
               /\ tens[loss.in_grad].size = tens[lastl.out].size

\* C3: ctensor_destroy on a model with its loss and optimizer set, after
\* ctensor_train has returned, completes and leaves every block the model
\* ever allocated (layers, tensors, FCL and Adam state, loss node, optimizer,
\* train's avg_grad) freed exactly once; it frees nothing that malloc did
\* not return, so never the caller's buffer that startl.out.data aliases.
C3_DestroyFreesAllOnce ==
    (hist.phase = "destroyed" /\ hist.trained /\ hist.loss /\ hist.opt) =>
        /\ status = "ok"
        /\ \A b \in 1..Len(heap) : heap[b].frees = 1
        /\ \A e \in oob : e[1] # "free"

\* A trained two-layer model with an FCL layer has been destroyed while its
\* start layer still pointed into the caller's training data.
C3_Witness ==
    /\ hist.phase = "destroyed" /\ hist.trained /\ hist.loss /\ hist.opt
    /\ hist.nlayers >= 2 /\ DOMAIN fcls # {} /\ DOMAIN adams # {}
    /\ tens[layers[model.startl].out].data.blk \in CallerBlks
    /\ \E b \in 1..Len(heap) : heap[b].tag = "_fcl_s"

\* C4: when ctensor_predict returns, startl.out.data is the caller's
\* input.data, the forward callbacks that ran are exactly those of the
\* non-start layers, once each in list order from the head, and the value
\* returned is lastl.out (the start layer's out when no layer was added).
C4_PredictForward ==
    hist.last = "predict" =>
        LET ch == LayerChain
        IN  /\ status = "ok"
            /\ tens[layers[model.startl].out].data = [blk |-> InputBlk, off |-> 0]
            /\ log = [i \in 1..(Len(ch) - 1) |-> <<"fwd", ch[i + 1]>>]
            /\ ret = layers[model.lastl].out
            /\ hist.nlayers = 0 => ret = layers[model.startl].out

\* predict has run on a model with two added layers.
C4_Witness ==
    /\ hist.last = "predict" /\ hist.nlayers >= 2 /\ Len(log) >= 2
    /\ ret # layers[model.startl].out

\* A step that is one call of ctensor_predict or ctensor_test.
ForwardCall == hist'.uses = hist.uses + 1

\* The data blocks of the out tensors of the non-start layers.
OutBlks ==
    LET ch == LayerChain
    IN  {tens[layers[ch[i]].out].data.blk : i \in 2..Len(ch)}

\* C5: a call of ctensor_predict or ctensor_test changes no FCL kernel or
\* bias, no in_grad or internal_grad, not the loss node's in_grad and not
\* the optimizer's state: the only stores it makes are to startl.out.data
\* and into the out buffers of the layers.
C5_ForwardWritesOnlyOut ==
    [][ForwardCall =>
          /\ fcls' = fcls /\ adams' = adams /\ opts' = opts /\ losses' = losses
          /\ layers' = layers /\ model' = model /\ heap' = heap
          /\ \A t \in DOMAIN tens :
                 /\ tens'[t].size = tens[t].size
                 /\ t # layers[model.startl].out => tens'[t] = tens[t]
          /\ \A b \in DOMAIN mem : b \notin OutBlks => mem'[b] = mem[b]
          /\ \A e \in oob' \ oob : e[1] # "w"
      ]_vars

\* The state in which the caller holds input p (and the matching expected
\* vector), and what predict leaves in the tensor it returns.
WithInput(s, p) ==
    WithCallerTensor(
        WithCallerTensor(s, InputT, InputBlk, DataVec(p, CallerInSize)),
        ExpectedT, ExpectedBlk, DataVec(p + 1, CallerOutSize))

PredictOut(r) == r.s.mem[r.s.tens[r.r].data.blk]

\* C6: the output of predict (and the loss test returns) is a function of
\* the parameters and the input alone: in any state of a usable model,
\* predict on input p gives the same output whether it is called now, or
\* after another forward pass on the same or on a different input has left
\* its values in the layers' out buffers.
C6_PredictRepeatable ==
    InUse =>
        \A p, q \in DataChoices :
            LET s0 == State(0)
                now == ctensor_predict(WithInput(s0, p), InputT)
                before == ctensor_predict(WithInput(s0, q), InputT)
                again == ctensor_predict(WithInput(before.s, p), InputT)
                tnow == ctensor_test(WithInput(s0, p), InputT, ExpectedT)
                tagain == ctensor_test(WithInput(before.s, p), InputT, ExpectedT)
            IN  /\ (Ok(now.s) /\ Ok(again.s)) => PredictOut(now) = PredictOut(again)
                /\ (hist.loss /\ Ok(tnow.s) /\ Ok(tagain.s)) => tnow.r = tagain.r

Reverse(seq) == [i \in 1..Len(seq) |-> seq[Len(seq) + 1 - i]]

\* The layers with a non-null internal_grad, tail to head.
TrainableLayers ==
    SelectSeq(Reverse(LayerChain), LAMBDA l : layers[l].internal_grad # NullPtr)

\* Where the slice of the i-th trainable layer (tail to head) starts in avg_grad.
RECURSIVE SliceOff(_, _)
SliceOff(T, i) ==
    IF i <= 1 THEN 0
    ELSE SliceOff(T, i - 1) + tens[layers[T[i - 1]].internal_grad].size

\* The buffers that hold trainable parameters, and their contents.
ParamBlks ==
    UNION {{tens[fcls[d].kernel].data.blk, tens[fcls[d].bias].data.blk} : d \in DOMAIN fcls}

Params == [b \in ParamBlks |-> mem[b]]

\* A step of the example loop of a batch, and the step that ends the batch,
\* neither with undefined behaviour so far.
ExampleStep == train.pc = "example" /\ status' = "ok" /\ oob' = {}

BatchEndStep == train.pc = "batch_end" /\ status' = "ok" /\ oob' = {}

\* After the step, the parameters of trainable layer T[i] are what they were
\* plus the layer's slice of avg_grad, which is what internal_grad holds.
UpdatedOnce(T, i) ==
    LET l == layers[T[i]]
        ig == tens[l.internal_grad]
        k == tens[fcls[l.internal].kernel]
        b == tens[fcls[l.internal].bias]
        slice == SubSeq(mem'[tens[train.avg_grad].data.blk],
                        SliceOff(T, i) + 1, SliceOff(T, i) + ig.size)
    IN  /\ mem'[ig.data.blk] = slice
        /\ mem'[k.data.blk] = [j \in 1..k.size |-> FAdd(mem[k.data.blk][j], slice[j])]
        /\ mem'[b.data.blk] = [j \in 1..b.size |-> FAdd(mem[b.data.blk][j], slice[k.size + j])]

\* C7: while the examples of a batch are processed no trainable parameter
\* changes and neither the optimizer nor an update callback runs; the step
\* that ends the batch runs the optimizer once on avg_grad and after it the
\* update callback of every layer with a non-null internal_grad once, tail
\* to head, each with internal_grad holding the layer's slice of avg_grad as
\* the optimizer left it (so each parameter moves by its slice, once).
C7_UpdateAfterBatch ==
    [][/\ ExampleStep =>
            /\ Params' = Params
            /\ \A i \in 1..Len(log') : log'[i][1] \notin {"opt", "update"}
       /\ BatchEndStep =>
            LET T == TrainableLayers
            IN  /\ log' = <<<<"opt", model.optimizer>>>>
                             \o [i \in 1..Len(T) |-> <<"update", T[i]>>]
                /\ \A d \in DOMAIN adams : adams'[d].t = adams[d].t + 1
                /\ tens'[train.avg_grad].data = tens[train.avg_grad].data
                /\ \A i \in 1..Len(T) : UpdatedOnce(T, i)]_vars

\* A batch of two examples has ended on a model with two trainable layers:
\* the optimizer ran and both layers were updated.
C7_Witness ==
    /\ status = "ok" /\ oob = {} /\ model.batch_size = 2
    /\ train.pc \in {"batch_begin", "return"}
    /\ Len(log) = 3 /\ log[1][1] = "opt" /\ log[3][1] = "update"

\* Where x_train->data and y_train->data stand.
XTrainAt(off) == tens[XTrainT].data = [blk |-> XTrainBlk, off |-> off]

YTrainAt(off) == tens[YTrainT].data = [blk |-> YTrainBlk, off |-> off]

\* C8: while ctensor_train runs, example k of a batch is taken from offset
\* k*in_size of the training inputs and k*out_size of the training targets
\* (the start layer's out.data is that address while the example is
\* processed), and between batches x_train.data and y_train.data are back
\* at the base they had before the batch.
C8_BatchStride ==
    (status = "ok" /\ train.pc # "idle") =>
        /\ train.pc \in {"example", "batch_end"} =>
               /\ XTrainAt(train.i * train.in_s)
               /\ YTrainAt(train.i * train.out_s)
               /\ train.i > 0 =>
                      tens[layers[model.startl].out].data =
                          [blk |-> XTrainBlk, off |-> (train.i - 1) * train.in_s]
        /\ train.pc \in {"batch_begin", "return"} => XTrainAt(0) /\ YTrainAt(0)

\* seq[1] + ... + seq[n], added left to right starting from 0.
RECURSIVE FSum(_, _)
FSum(seq, n) == IF n = 0 THEN FZero ELSE FAdd(FSum(seq, n - 1), seq[n])

\* The mean of the training losses of one batch (the sum times 1/batch_size).
BatchMean(losses_of_batch) ==
    FMul(FSum(losses_of_batch, Len(losses_of_batch)),
         FDiv(FOne, FInt(Len(losses_of_batch))))

\* The mean over the batches of an epoch of the batch means.
EpochMean(losses_of_epoch) ==
    FDiv(FSum([b \in 1..Len(losses_of_epoch) |-> BatchMean(losses_of_epoch[b])],
              Len(losses_of_epoch)),
         FInt(Len(losses_of_epoch)))

\* C9: ctensor_train returns the loss of the final epoch only: train.elog
\* holds the training loss of every example of the epoch that just ended,
\* batch by batch (batches batches of batch_size losses), and the value
\* returned is the sum over these batches of (sum of the batch's losses
\* divided by batch_size), divided by batches.
C9_TrainReturnsLastEpochMean ==
    [][(train.pc = "return" /\ status' = "ok") =>
           /\ Len(train.elog) = model.batches
           /\ \A b \in 1..Len(train.elog) : Len(train.elog[b]) = model.batch_size
           /\ train.epoch = model.epochs
           /\ ret' = EpochMean(train.elog)]_vars

\* ctensor_train has returned a non-zero loss after two epochs of two
\* batches of two examples on a model with a trainable layer.
C9_Witness ==
    /\ hist.last = "train" /\ train.pc = "idle" /\ status = "ok"
    /\ DOMAIN fcls # {} /\ oob = {}
    /\ model.epochs = 2 /\ model.batches = 2 /\ model.batch_size = 2
    /\ ret # FZero

\* C10: once the init callback of a layer has returned, internal_grad is
\* NULL exactly for the layers without trainable parameters: NULL for the
\* start layer and for a ReLU layer, and for a fully-connected layer a
\* tensor of size out_size*in_size + out_size, also when an allocation in
\* the init callback failed and it returned early.
C10_InternalGradIffTrainable ==
    (Alive /\ status = "ok") =>
        \A l \in DOMAIN layers :
            /\ l = model.startl => layers[l].internal_grad = NullPtr
            /\ layers[l].fwd = "ctensor_relu_fwd" => layers[l].internal_grad = NullPtr
            /\ layers[l].fwd = "ctensor_fcl_fwd" =>
                   /\ layers[l].internal_grad # NullPtr
                   /\ layers[l].internal_grad \in DOMAIN tens
                   /\ tens[layers[l].internal_grad].size =
                          tens[layers[l].out].size * tens[layers[l].in].size
                              + tens[layers[l].out].size

(***************************************************************************)
(* One layer on its own: the cells of its buffers.                         *)
(***************************************************************************)
\* Cell i (from 0) of the buffer of tensor t.
Cell(t, i) == mem[tens[t].data.blk][tens[t].data.off + i + 1]

UnitLayer == layers[model.lastl]

UnitIsRelu == UnitLayer.fwd = "ctensor_relu_fwd"

UnitIsFcl == UnitLayer.fwd = "ctensor_fcl_fwd"

\* The call named what has just returned and stayed inside every buffer.
UnitDone(what) ==
    hist.phase = "unit" /\ hist.last = what /\ status = "ok" /\ oob = {}

FMax(a, b) == IF FLt(a, b) THEN b ELSE a

\* C11: after the ReLU forward pass out[i] = max(0, x[i]) for every index i of
\* the input; after its backward pass in_grad[i] = loss_grad[i] where x[i] > 0
\* and in_grad[i] = 0 where x[i] <= 0, whatever the output buffer holds.
C11_ReluMaxAndGate ==
    /\ (UnitDone("fwd") /\ UnitIsRelu) =>
           \A i \in 0..(tens[UnitLayer.in].size - 1) :
               Cell(UnitLayer.out, i) = FMax(FZero, Cell(UnitLayer.in, i))
    /\ (UnitDone("bckp") /\ UnitIsRelu) =>
           \A i \in 0..(tens[UnitLayer.in].size - 1) :
               Cell(UnitLayer.in_grad, i) =
                   IF FLt(FZero, Cell(UnitLayer.in, i))
                   THEN Cell(UnitLayer.loss_grad, i) ELSE FZero

\* A backward pass on an input holding exactly zero where the output buffer
\* is positive and the arriving gradient is not zero, a positive input next to
\* it, and a forward pass that clamped a negative input.
C11_Witness_Bckp ==
    /\ UnitDone("bckp") /\ UnitIsRelu
    /\ tens[UnitLayer.in].size = 2
    /\ Cell(UnitLayer.in, 0) = FZero
    /\ FLt(FZero, Cell(UnitLayer.out, 0))
    /\ Cell(UnitLayer.loss_grad, 0) # FZero
    /\ Cell(UnitLayer.in_grad, 0) = FZero
    /\ FLt(FZero, Cell(UnitLayer.in, 1))
    /\ Cell(UnitLayer.in_grad, 1) = Cell(UnitLayer.loss_grad, 1)
    /\ Cell(UnitLayer.in_grad, 1) # FZero

\* The output of ctensor_fcl_fwd on input v, with the parameters of this state.
UnitFclOut(v) ==
    LET s == ctensor_fcl_fwd(Fill(State(0), UnitLayer.in, v), model.lastl)
    IN  [i \in 1..tens[UnitLayer.out].size |-> s.mem[tens[UnitLayer.out].data.blk][i]]

UnitBias == [i \in 1..tens[UnitLayer.out].size |-> Cell(fcls[UnitLayer.internal].bias, i - 1)]

UnitIn == [j \in 1..tens[UnitLayer.in].size |-> Cell(UnitLayer.in, j - 1)]

VAdd(a, b) == [i \in DOMAIN a |-> FAdd(a[i], b[i])]

VSub(a, b) == [i \in DOMAIN a |-> FSub(a[i], b[i])]

\* C12: for the weights and bias of the layer and any two inputs in1, in2,
\* fcl_fwd(in1 + in2) = fcl_fwd(in1) + fcl_fwd(in2) - B in every cell.  The
\* output buffer holds fcl_fwd(in1) after every forward pass; the pairs of
\* inputs are taken where the pass is the first call on the layer, which
\* leaves no weights, bias or input out.
C12_FclFwdLinear ==
    (UnitDone("fwd") /\ UnitIsFcl) =>
        /\ [i \in 1..tens[UnitLayer.out].size |-> Cell(UnitLayer.out, i - 1)] = UnitFclOut(UnitIn)
        /\ hist.uses = 1 =>
               \A in2 \in UnitVecs(tens[UnitLayer.in].size) :
                   UnitFclOut(VAdd(UnitIn, in2)) =
                       VSub(VAdd(UnitFclOut(UnitIn), UnitFclOut(in2)), UnitBias)

\* A forward pass of a 2x2 layer on an input without a zero, with a bias
\* that is not zero and an output that is not the bias alone.
C12_Witness_Fwd ==
    /\ UnitDone("fwd") /\ UnitIsFcl
    /\ tens[UnitLayer.in].size = 2 /\ tens[UnitLayer.out].size = 2
    /\ \A j \in 1..2 : UnitIn[j] # FZero
    /\ \A i \in 1..2 : UnitBias[i] # FZero
    /\ \A i \in 1..2 : Cell(UnitLayer.out, i - 1) # UnitBias[i]
    /\ env.junk # FZero

UnitLoss == losses[model.lossl]

\* C13: after the MSE backward pass, with n the size of the output,
\* in_grad[i] = (-2/n) * (expected[i] - output[i]) = (2/n) * (output[i] - expected[i])
\* for every i: positive where the output exceeds the target, zero exactly
\* where they are equal; the call returns 0.
C13_MseBckpGradient ==
    UnitDone("loss_bckp") =>
        /\ ret = FZero
        /\ LET n == tens[UnitLoss.in].size
           IN  \A i \in 0..(n - 1) :
                   LET g == Cell(UnitLoss.in_grad, i)
                       o == Cell(UnitLoss.in, i)
                       x == Cell(ExpectedT, i)
                   IN  /\ g = FMul(FDiv(FInt(-2), FInt(n)), FSub(x, o))
                       /\ g = FMul(FDiv(FInt(2), FInt(n)), FSub(o, x))
                       /\ FLt(FZero, g) <=> FLt(x, o)
                       /\ g = FZero <=> o = x

\* A backward pass on two outputs: the first above its target, the second
\* equal to it, over a gradient buffer that held something else.
C13_Witness_LossBckp ==
    /\ UnitDone("loss_bckp")
    /\ tens[UnitLoss.in].size = 2
    /\ FLt(Cell(ExpectedT, 0), Cell(UnitLoss.in, 0))
    /\ FLt(FZero, Cell(UnitLoss.in_grad, 0))
    /\ Cell(ExpectedT, 1) = Cell(UnitLoss.in, 1)
    /\ Cell(UnitLoss.in_grad, 1) = FZero
    /\ ret = FZero

\* No block of the heap has been handed to free.
NothingFreed(h) == \A b \in DOMAIN h : h[b].frees = 0

\* C14: a construction call in which a malloc returns NULL comes back to its
\* caller: the NULL is not dereferenced, and nothing allocated so far is freed.
C14_AllocFailurePropagates ==
    [][(~oom /\ oom') => (status' = "ok" /\ NothingFreed(heap'))]_vars

\* The slices are those of the trainable layers from the tail to the head,
\* each as long as the layer's internal_grad, laid one after the other from
\* the start of avg_grad and ending at its size, which is the parameter
\* count taken from the head to the tail.
SlicesTile(sl, op) ==
    LET T == TrainableLayers
    IN  /\ Len(sl) = Len(T)
        /\ \A i \in 1..Len(sl) :
               /\ sl[i].op = op
               /\ sl[i].ig = layers[T[i]].internal_grad
               /\ sl[i].len = tens[sl[i].ig].size
               /\ sl[i].blk = tens[train.avg_grad].data.blk
               /\ sl[i].off = IF i = 1 THEN 0 ELSE sl[i - 1].off + sl[i - 1].len
        /\ \A i, j \in 1..Len(sl) :
               i < j => sl[i].off + sl[i].len <= sl[j].off
        /\ tens[train.avg_grad].size = _ct_get_model_param_size(State(0))
        /\ tens[train.avg_grad].size =
               IF Len(sl) = 0 THEN 0 ELSE sl[Len(sl)].off + sl[Len(sl)].len

\* C15: the slice of avg_grad a trainable layer's internal_grad is added into
\* during backpropagation is the slice (same offset, same length) copied back
\* into that internal_grad before the layer's update; the slices of different
\* layers are disjoint, are assigned from the tail to the head, and cover
\* exactly the avg_grad.size cells counted from the head to the tail.
C15_SlicesAgree ==
    [][/\ ExampleStep => SlicesTile(slices', "sum")
       /\ BatchEndStep =>
              /\ SlicesTile(slices', "copy")
              /\ slices' = [i \in 1..Len(slices) |-> [slices[i] EXCEPT !.op = "copy"]]]_vars

\* A batch has ended on a model with two trainable layers of different
\* parameter counts: two slices were copied back, the second one not at 0.
C15_Witness_TwoSlices ==
    /\ status = "ok" /\ oob = {}
    /\ Len(slices) = 2
    /\ slices[1].op = "copy" /\ slices[2].op = "copy"
    /\ slices[1].len # slices[2].len
    /\ slices[2].off = slices[1].len
    /\ slices[1].ig = layers[model.lastl].internal_grad

UnitInSize == tens[UnitLayer.in].size

UnitOutSize == tens[UnitLayer.out].size

\* C16: after the backward pass of a fully connected layer, the cell of
\* internal_grad at the row-major position i*in_size + j holds
\* in[j] * loss_grad[i], and the cell at out_size*in_size + i holds
\* loss_grad[i], for all i < out_size and j < in_size.
C16_FclBckpRowMajor ==
    (UnitDone("bckp") /\ UnitIsFcl) =>
        \A i \in 0..(UnitOutSize - 1) :
            /\ \A j \in 0..(UnitInSize - 1) :
                   Cell(UnitLayer.internal_grad, i * UnitInSize + j) =
                       FMul(Cell(UnitLayer.in, j), Cell(UnitLayer.loss_grad, i))
            /\ Cell(UnitLayer.internal_grad, UnitOutSize * UnitInSize + i) =
                   Cell(UnitLayer.loss_grad, i)

UnitKernel == fcls[UnitLayer.internal].kernel

\* in_grad after ctensor_fcl_bckp on this state with in_grad holding v first.
UnitFclInGrad(v) ==
    LET s == ctensor_fcl_bckp(Fill(State(0), UnitLayer.in_grad, v), model.lastl)
    IN  [j \in 1..UnitInSize |-> s.mem[tens[UnitLayer.in_grad].data.blk][j]]

FwdCalls ==
    LET ch == LayerChain
    IN  [i \in 1..(Len(ch) - 1) |-> <<"fwd", ch[i + 1]>>] \o <<<<"loss_fwd", model.lossl>>>>

BckpCalls ==
    LET ch == LayerChain
    IN  [i \in 1..(Len(ch) - 1) |-> <<"bckp", ch[Len(ch) + 1 - i]>>]

\* The out buffers of the layers in state s.
OutsIn(s) == [b \in OutBlks |-> s.mem[b]]

\* C18: for every example of ctensor_train the steps run in this order:
\* forward on the held-out pair, forward on the training pair, loss backward
\* on the training target, the layers' backward callbacks from the tail to
\* the head; so the buffers the backward callbacks read hold the values of
\* the training example: the start layer points at it, the out buffers are
\* those of its forward pass, and the loss node's in_grad is the gradient
\* against its target.
C18_ExampleOrder ==
    [][ExampleStep =>
          LET fwd == ForwardPass(State(0), XTrainT)
              out == tens'[losses[model.lossl].in]
              n == out.size
              g == tens[losses[model.lossl].in_grad].data
          IN  /\ log' = FwdCalls \o FwdCalls \o <<<<"loss_bckp", model.lossl>>>> \o BckpCalls
              /\ tens'[layers[model.startl].out].data = tens[XTrainT].data
              /\ [b \in OutBlks |-> mem'[b]] = OutsIn(fwd)
              /\ \A i \in 1..n :
                     mem'[g.blk][g.off + i] =
                         FMul(FDiv(FInt(-2), FInt(n)),
                              FSub(mem[YTrainBlk][tens[YTrainT].data.off + i],
                                   mem'[out.data.blk][out.data.off + i]))
      ]_vars

\* An example of the second batch position has been processed on a model
\* with two layers, and what its layers hold differs from what a forward
\* pass on the held-out input gives.
C18_Witness_Example ==
    /\ status = "ok" /\ oob = {}
    /\ train.pc \in {"example", "batch_end"} /\ train.i = 2
    /\ hist.nlayers = 2
    /\ Len(log) = 9
    /\ log[7][1] = "loss_bckp" /\ log[8] = <<"bckp", model.lastl>>
    /\ OutsIn(State(0)) # OutsIn(ForwardPass(State(0), XTestT))

\* The cells of avg_grad.
AvgGrad == mem[tens[train.avg_grad].data.blk]

BatchBeginStep == train.pc = "batch_begin" /\ status' = "ok" /\ oob' = {}

\* The gradients of one example, as its backward pass left them in the
\* internal_grad tensors, added into avg_grad slice by slice.
ExampleAdded ==
    LET T == TrainableLayers
    IN  \A i \in 1..Len(T) :
            LET ig == tens[layers[T[i]].internal_grad]
            IN  \A k \in 1..ig.size :
                    AvgGrad'[SliceOff(T, i) + k] =
                        FAdd(mem'[ig.data.blk][k], AvgGrad[SliceOff(T, i) + k])

\* C19: avg_grad is all zero when a batch starts, whatever the batch before
\* left in it; every example of the batch adds its concatenated parameter
\* gradients to it; the batch ends after exactly batch_size examples, and the
\* optimizer step is applied to that sum times 1/batch_size.
C19_AvgGradIsBatchMean ==
    [][/\ BatchBeginStep => \A k \in 1..Len(AvgGrad') : AvgGrad'[k] = FZero
       /\ ExampleStep =>
              /\ ExampleAdded
              /\ train'.i = train.i + 1
              /\ (train'.pc = "batch_end") <=> (train'.i = model.batch_size)
       /\ BatchEndStep =>
              LET mean == [k \in 1..Len(AvgGrad) |->
                               FMul(AvgGrad[k], FDiv(FOne, FInt(model.batch_size)))]
                  fed == CallOpt(Fill(State(0), train.avg_grad, mean), train.avg_grad)
              IN  /\ train.i = model.batch_size
                  /\ AvgGrad' = fed.mem[tens[train.avg_grad].data.blk]
                  /\ adams' = fed.adams]_vars

\* The second batch of two examples has ended on a model with a trainable
\* layer: the optimizer has stepped for the second time and has left
\* avg_grad non-zero for the batch after it.
C19_Witness_SecondBatch ==
    /\ status = "ok" /\ oob = {}
    /\ train.pc \in {"batch_begin", "return"}
    /\ model.batch_size = 2 /\ model.batches = 2
    /\ Len(train.elog) = 2 /\ Len(train.elog[2]) = 2
    /\ Len(log) >= 2 /\ log[1][1] = "opt"
    /\ \E k \in 1..Len(AvgGrad) : AvgGrad[k] # FZero
    /\ \E d \in DOMAIN adams : adams[d].t = 3
    /\ Len(TrainableLayers) >= 1

\* The layers from the tail towards the head, up to the first one that has
\* no backward callback.
RECURSIVE BeforeFirstNullBckp(_)
BeforeFirstNullBckp(ch) ==
    IF ch = <<>> \/ layers[Head(ch)].bckp = "NULL" THEN <<>>
    ELSE <<Head(ch)>> \o BeforeFirstNullBckp(Tail(ch))

\* The backward callbacks called, in order.
BckpLog(l) == SelectSeq(l, LAMBDA e : e[1] = "bckp")

\* C20: the backward walk of an example goes from the last layer towards the
\* head and stops at the first layer whose backward callback is null: the
\* backward callbacks called are those of the layers after it, tail first,
\* and only the internal_grad of those layers is added to avg_grad (the rest
\* of avg_grad is left as it was), even when a layer before the stop has a
\* backward callback and parameters.  With no such layer but the start
\* layer, every layer's callback is called.
C20_BckpStopsAtNull ==
    [][ExampleStep =>
          LET walked == BeforeFirstNullBckp(Reverse(LayerChain))
              T == SelectSeq(walked, LAMBDA l : layers[l].internal_grad # NullPtr)
              blk == tens[train.avg_grad].data.blk
          IN  /\ BckpLog(log') = [i \in 1..Len(walked) |-> <<"bckp", walked[i]>>]
              /\ Len(slices') = Len(T)
              /\ \A i \in 1..Len(T) :
                     /\ slices'[i].ig = layers[T[i]].internal_grad
                     /\ slices'[i].op = "sum"
              /\ \A k \in 1..Len(mem[blk]) :
                     (\A i \in 1..Len(T) :
                          k - 1 < slices'[i].off \/ k - 1 >= slices'[i].off + slices'[i].len)
                     => mem'[blk][k] = mem[blk][k]
              /\ (\A i \in 2..Len(LayerChain) : layers[LayerChain[i]].bckp # "NULL")
                     => Len(walked) = Len(LayerChain) - 1
      ]_vars

\* The first example has been processed on a model whose last layer has no
\* backward callback and whose layer before it is fully connected: no
\* backward callback was called and avg_grad is still all zero.
C20_Witness_FrozenTail ==
    /\ status = "ok" /\ oob = {}
    /\ train.pc \in {"example", "batch_end"} /\ train.i = 1 /\ train.batch = 0
    /\ train.epoch = 0
    /\ hist.nlayers = 2
    /\ layers[model.lastl].bckp = "NULL"
    /\ layers[layers[model.lastl].prev].bckp = "ctensor_fcl_bckp"
    /\ Len(log) > 0 /\ BckpLog(log) = <<>>
    /\ slices = <<>>
    /\ Len(AvgGrad) > 0
    /\ \A k \in 1..Len(AvgGrad) : AvgGrad[k] = FZero

\* The buffer of tensor t, before and after the step.
Buf(t) == mem[tens[t].data.blk]

BufAfter(t) == mem'[tens[t].data.blk]

\* The step is the call named what on the layer, and it has returned having
\* stayed inside every buffer.
UnitCallStep(what) ==
    hist.phase = "unit" /\ hist'.last = what /\ hist'.uses = hist.uses + 1
    /\ status' = "ok" /\ oob' = {}

\* C21: the update callback of a fully connected layer adds internal_grad
\* into the parameters cell by cell: W[k] = W_before[k] + internal_grad[k]
\* for k < out_size*in_size and B[i] = B_before[i] +
\* internal_grad[out_size*in_size + i] for i < out_size; internal_grad and the
\* layer's in, out and in_grad are left as they were.
C21_FclUpdateAdds ==
    [][UnitCallStep("update") =>
          LET W == fcls[UnitLayer.internal].kernel
              B == fcls[UnitLayer.internal].bias
              ig == Buf(UnitLayer.internal_grad)
          IN  /\ tens[W].size = UnitOutSize * UnitInSize
              /\ BufAfter(W) = [k \in 1..(UnitOutSize * UnitInSize) |-> FAdd(Buf(W)[k], ig[k])]
              /\ BufAfter(B) = [i \in 1..UnitOutSize |->
                                    FAdd(Buf(B)[i], ig[UnitOutSize * UnitInSize + i])]
              /\ BufAfter(UnitLayer.internal_grad) = ig
              /\ BufAfter(UnitLayer.in) = Buf(UnitLayer.in)
              /\ BufAfter(UnitLayer.out) = Buf(UnitLayer.out)
              /\ BufAfter(UnitLayer.in_grad) = Buf(UnitLayer.in_grad)
              /\ tens' = tens /\ layers' = layers /\ fcls' = fcls
      ]_vars

\* An update of a 2-by-2 layer right after its backward pass, with a
\* gradient that is zero nowhere and whose bias part differs from its start.
C21_Witness_Update ==
    /\ UnitDone("update") /\ UnitIsFcl
    /\ hist.uses = 2
    /\ UnitInSize = 2 /\ UnitOutSize = 2
    /\ \A k \in 0..5 : Cell(UnitLayer.internal_grad, k) # FZero
    /\ Cell(UnitLayer.internal_grad, 4) # Cell(UnitLayer.internal_grad, 0)
    /\ Cell(UnitKernel, 0) # Cell(UnitLayer.internal_grad, 0)


\* The optimizer set on the model is an Adam optimizer with its state.
HasAdam ==
    /\ status = "ok" /\ Alive
    /\ model.optimizer \in DOMAIN opts
    /\ opts[model.optimizer].internal \in DOMAIN adams

AdamData == adams[opts[model.optimizer].internal]

\* The optimizer steps ctensor_train has taken so far.
StepsDone ==
    IF train.pc = "idle"
    THEN IF hist.trained THEN model.epochs * model.batches ELSE 0
    ELSE train.epoch * model.batches + train.batch

\* A moment vector before the step: zeros when it does not exist yet.
MomentBefore(t, n) == IF t = NullPtr THEN [i \in 1..n |-> FZero] ELSE Buf(t)

\* What one Adam step with counter t makes of gradient g and moments m, v.
AdamStep(g, m, v, t) ==
    LET mi == FAdd(FMul(AdamB1, m), FMul(FSub(FOne, AdamB1), g))
        vi == FAdd(FMul(AdamB2, v), FMul(FSub(FOne, AdamB2), FMul(g, g)))
        mb == FDiv(mi, FSub(FOne, FPow(AdamB1, t)))
        vb == FDiv(vi, FSub(FOne, FPow(AdamB2, t)))
    IN  FDiv(FMul(FNeg(model.learning_rate), mb), FAdd(FSqrt(vb), AdamEps))

\* C22: Adam's step counter is 1 once ctensor_adam has initialised the
\* optimizer; the k-th optimizer step finds the counter at k, computes the
\* transformed gradient with the bias corrections 1 - b1^k and 1 - b2^k, and
\* leaves the counter at k + 1; so the counter is 1 + epochs * batches once
\* ctensor_train on a fresh optimizer has completed.
C22_AdamCounter ==
    /\ [](HasAdam => AdamData.t = 1 + StepsDone)
    /\ [][BatchEndStep /\ HasAdam =>
             LET k == AdamData.t
                 n == tens[train.avg_grad].size
                 m == MomentBefore(AdamData.m, n)
                 v == MomentBefore(AdamData.v, n)
                 g == [i \in 1..n |-> FMul(AvgGrad[i], BatchAvg(model.batch_size))]
             IN  /\ k = StepsDone + 1
                 /\ adams'[opts[model.optimizer].internal].t = k + 1
                 /\ mem'[tens[train.avg_grad].data.blk]
                        = [i \in 1..n |-> AdamStep(g[i], m[i], v[i], k)]
       ]_vars

C22_Witness_TrainDone ==
    /\ HasAdam
    /\ hist.trained /\ train.pc = "idle" /\ oob = {}
    /\ model.epochs = 2 /\ model.batches = 2
    /\ AdamData.t = 5
    /\ AdamData.m # NullPtr
    /\ \E i \in DOMAIN Buf(AdamData.m) : Buf(AdamData.m)[i] # FZero


\* The model's Adam optimizer exists and has not been destroyed.
AdamLive ==
    /\ status = "ok" /\ hist.phase # "destroyed"
    /\ model.optimizer \in DOMAIN opts
    /\ opts[model.optimizer].internal \in DOMAIN adams

\* The accesses outside their block made to the buffers of tensors m and v.
MomentOob(o, T, m, v) ==
    {e \in o : e[1] \in {"r", "w"} /\ e[2] \in {T[m].data.blk, T[v].data.blk}}

\* An optimizer step of ctensor_train that ran to its end.
AdamStepDone == AdamLive /\ train.pc = "batch_end" /\ status' = "ok"

\* First and second moment after a step on gradient g.
MomentsAfter(g, m, v) ==
    [m |-> [i \in DOMAIN g |->
                FAdd(FMul(AdamB1, m[i]), FMul(FSub(FOne, AdamB1), g[i]))],
     v |-> [i \in DOMAIN g |->
                FAdd(FMul(AdamB2, v[i]), FMul(FSub(FOne, AdamB2), FMul(g[i], g[i])))]]

\* C23: Adam's moment tensors m and v do not exist until the first step;
\* the first step allocates both with the size of that step's gradient and
\* starts them from zero; every later step keeps the same two tensors,
\* neither reallocated nor zeroed again; and on every step, also one taken
\* after trainable layers were added between two ctensor_train calls, m and
\* v are read and written only below their allocated size.
C23_AdamMomentsInBounds ==
    /\ [](AdamLive /\ AdamData.t = 1 =>
              AdamData.m = NullPtr /\ AdamData.v = NullPtr)
    /\ [][AdamStepDone =>
             LET d == opts[model.optimizer].internal
                 a == adams[d]
                 b == adams'[d]
                 n == tens[train.avg_grad].size
                 g == [i \in 1..n |-> FMul(AvgGrad[i], BatchAvg(model.batch_size))]
                 after == MomentsAfter(g, MomentBefore(a.m, n), MomentBefore(a.v, n))
             IN  /\ a.m = NullPtr =>
                        /\ b.m \in DOMAIN tens' \ DOMAIN tens
                        /\ tens'[b.m].size = n
                 /\ a.v = NullPtr =>
                        /\ b.v \in DOMAIN tens' \ DOMAIN tens
                        /\ tens'[b.v].size = n
                 /\ a.m # NullPtr => b.m = a.m /\ tens'[b.m] = tens[a.m]
                 /\ a.v # NullPtr => b.v = a.v /\ tens'[b.v] = tens[a.v]
                 /\ b.m # b.v
                 /\ MomentOob(oob', tens', b.m, b.v) = {}
                 /\ oob' = {} /\ tens'[b.m].size = n /\ tens'[b.v].size = n =>
                        /\ mem'[tens'[b.m].data.blk] = after.m
                        /\ mem'[tens'[b.v].data.blk] = after.v
       ]_vars

\* A second training of a model that has gained a trainable layer reaches
\* its first optimizer step with moments shorter than the gradient.
C23_Witness_GrownStep ==
    /\ AdamLive
    /\ hist.phase = "retrain" /\ train.pc = "batch_end"
    /\ AdamData.m # NullPtr
    /\ tens[AdamData.m].size > 0
    /\ tens[AdamData.m].size < tens[train.avg_grad].size
    /\ MomentOob(oob, tens, AdamData.m, AdamData.v) = {}


\* A callback called on the layer on its own returned.
UnitRan(what) ==
    /\ hist.phase = "unit" /\ oob = {}
    /\ hist'.last = what /\ hist'.uses = hist.uses + 1
    /\ status' = "ok"

\* The step stores nowhere but in the buffers of the tensors in T.
WritesOnly(T) ==
    /\ \A b \in DOMAIN mem :
           b \notin {tens[t].data.blk : t \in T} => mem'[b] = mem[b]
    /\ DOMAIN mem' = DOMAIN mem
    /\ {e \in oob' : e[1] = "w"} = {}
    /\ tens' = tens /\ layers' = layers /\ fcls' = fcls /\ losses' = losses

\* C24: a forward callback stores only into the layer's own out buffer, a
\* backward callback only into the layer's own in_grad and internal_grad;
\* no callback stores into the layer's in, its loss_grad or its parameters
\* (or anywhere else).
C24_CallbackFrame ==
    [][/\ UnitRan("fwd") => WritesOnly({UnitLayer.out})
       /\ UnitRan("bckp") =>
              WritesOnly({UnitLayer.in_grad, UnitLayer.internal_grad}
                             \cap DOMAIN tens)
      ]_vars


(***************************************************************************)
(* The random calls.                                                       *)
(***************************************************************************)
\* A call of xoshiro128p on the state at hand has returned.
XoshiroStep == hist.phase = "rand" /\ hist'.last = "xoshiro128p" /\ hist'.uses = hist.uses + 1

\* The carry into bit i of a + b.
RECURSIVE CarryInto(_, _, _)
CarryInto(a, b, i) ==
    IF i = 1 THEN 0 ELSE (a[i - 1] + b[i - 1] + CarryInto(a, b, i - 1)) \div 2

\* Bit i of a + b modulo 2^32, and of a rotated left by r.
SumBit(a, b, i) == (a[i] + b[i] + CarryInto(a, b, i)) % 2

RotlBit(a, r, i) == a[((i - 1 - r) % 32) + 1]

\* C25: xoshiro128p, on every state of four 32-bit words, returns the word
\* ((s0 + s3) >> 9) | 0x3f800000 computed, modulo 2^32, from the state before
\* the update: sign bit 0, exponent field 127, and a value that less 1.0 lies
\* in [0, 1); and it leaves the state t = s1 << 9; s2 ^= s0; s3 ^= s1;
\* s1 ^= s2; s0 ^= s3; s2 ^= t; s3 = rotl(s3, 11).
C25_XoshiroDraw ==
    [][XoshiroStep =>
          LET s == rand.s
              n == rand'.s
              res == rand'.res
              x31 == [i \in 1..32 |-> (s[4][i] + s[2][i]) % 2]
          IN  /\ \A i \in 1..23 : res[i] = SumBit(s[1], s[4], i + 9)
              /\ FloatSign(res) = 0
              /\ FloatExp(res) = 127
              /\ rand'.r[1] >= 0
              /\ rand'.r[1] * Pow2(23 + rand'.r[2]) = FloatFrac(res)
              /\ FloatFrac(res) < Pow2(23)
              /\ \A i \in 1..32 :
                    /\ n[1][i] = (s[1][i] + s[4][i] + s[2][i]) % 2
                    /\ n[2][i] = (s[2][i] + s[3][i] + s[1][i]) % 2
                    /\ n[3][i] = (s[3][i] + s[1][i] + (IF i > 9 THEN s[2][i - 9] ELSE 0)) % 2
                    /\ n[4][i] = RotlBit(x31, 11, i)
       ]_vars

\* A draw on the state of four words 0xffffffff: the sum wraps and the
\* result is 0x3fffffff, the largest value below 2.
C25_Witness_Wrap ==
    /\ hist.phase = "rand" /\ hist.last = "xoshiro128p"
    /\ rand.res = HexWord(<<3, 15, 15, 15, 15, 15, 15, 15>>)
    /\ rand.r = <<Pow2(23) - 1, -23>>
    /\ rand.s[4] = Word(0, 32)


\* The values of the first k draws from generator state st.
RECURSIVE StreamFrom(_, _)
StreamFrom(st, k) ==
    IF k = 0 THEN <<>>
    ELSE With(xoshiro128p(st), LAMBDA d : <<d.r>> \o StreamFrom(d.s, k - 1))

\* The state after k draws from st.
RECURSIVE StateAfter(_, _)
StateAfter(st, k) ==
    IF k = 0 THEN st ELSE With(xoshiro128p(st).s, LAMBDA n : StateAfter(n, k - 1))

\* ctensor_randn on the caller's tensor has returned.
RandnStep ==
    /\ hist.phase = "rand" /\ hist'.last = "randn" /\ hist'.uses = hist.uses + 1
    /\ status' = "ok" /\ oob' = {}

\* 2u - 1 as a float, for the uniform value u = fraction / 2^23.
Coord(u) == F(2 * (u[1] * Pow2(u[2] + 23)) - Pow2(23), -23)

\* The pairs of a run that were kept.
Kept(tries) == SelectSeq(tries, LAMBDA t : ~t.again)

\* C26: ctensor_randn on a tensor of n elements keeps exactly ceil(n/2)
\* pairs (x, y); a pair is kept only when s = x*x + y*y has 0 < s < 1 and is
\* drawn again otherwise; every try takes exactly two uniform draws, x from
\* the first and y from the second; element 2k is x * chi and element 2k+1
\* is y * chi of the k-th kept pair, chi = sqrtf(-2 logf(s) / s); for odd n
\* the last element is the x of a pair drawn in full whose y is not stored.
C26_RandnPolar ==
    [][RandnStep =>
          LET n == tens[ret].size
              tr == rand'.tries
              kept == Kept(tr)
              u == StreamFrom(SeedState(rand'.seed), 2 * Len(tr))
              out == mem'[tens[ret].data.blk]
          IN  /\ Len(kept) = (n + 1) \div 2
              /\ rand'.draws = 2 * Len(tr)
              /\ rand'.s = StateAfter(SeedState(rand'.seed), 2 * Len(tr))
              /\ \A j \in 1..Len(tr) :
                    /\ tr[j].x = Coord(u[2 * j - 1])
                    /\ tr[j].y = Coord(u[2 * j])
                    /\ tr[j].s = FAdd(FMul(tr[j].x, tr[j].x), FMul(tr[j].y, tr[j].y))
                    /\ ~tr[j].again <=> (FLt(FZero, tr[j].s) /\ FLt(tr[j].s, FOne))
              /\ n > 0 => ~tr[Len(tr)].again
              /\ \A i \in 0..(n - 1) :
                    LET p == kept[(i \div 2) + 1]
                    IN  out[i + 1] = FMul(IF i % 2 = 0 THEN p.x ELSE p.y, RandnChi(p.s))
       ]_vars

\* A fill of an odd number of elements in which a pair was drawn again.
C26_Witness_Redrawn ==
    /\ hist.phase = "rand" /\ hist.last = "randn" /\ status = "ok"
    /\ tens[ret].size = 3
    /\ Len(rand.tries) = 3
    /\ rand.draws = 6
    /\ \E j \in 1..2 : rand.tries[j].again


\* A step of ctensor_train in which _ct_do_bckp or _ct_grad_update ran and
\* returned.
GradWalkStep == train.pc \in {"example", "batch_end"} /\ status' = "ok"

\* C27: when _ct_do_bckp and _ct_grad_update return, avg_grad->data points
\* at the first element of its buffer again, and every access made through
\* it stayed inside the buffer; also for chains in which the backward walk
\* stops early at a layer without bckp that has trainable layers before it.
C27_GradPointerRestored ==
    [][GradWalkStep =>
          /\ tens'[train.avg_grad].data = [blk |-> tens[train.avg_grad].data.blk, off |-> 0]
          /\ {e \in oob' : e[2] = tens[train.avg_grad].data.blk} = {}
      ]_vars

\* Training stands before the backward walk of a chain that ends in a layer
\* without bckp and has a trainable layer before it.
C27_Witness_EarlyStop ==
    /\ train.pc = "example" /\ status = "ok"
    /\ layers[model.lastl].bckp = "NULL"
    /\ model.lastl # model.startl
    /\ tens[train.avg_grad].size > 0
    /\ tens[train.avg_grad].data.off = 0


\* C28: for a fully connected layer of any in_size and out_size, the same
\* or different, the backward pass reads the kernel and writes the kernel
\* gradient only at indices below out_size * in_size: no access leaves the
\* kernel or internal_grad, and no bias-gradient entry (the arriving
\* gradient, stored after the kernel gradient) is overwritten.
C28_FclBckpIndices ==
    [][UnitRan("bckp") /\ UnitIsFcl =>
          /\ {e \in oob' : e[2] \in {tens[UnitKernel].data.blk,
                                     tens[UnitLayer.internal_grad].data.blk}} = {}
          /\ \A i \in 1..UnitOutSize :
                BufAfter(UnitLayer.internal_grad)[UnitOutSize * UnitInSize + i]
                    = Buf(UnitLayer.loss_grad)[i]
      ]_vars

\* A backward pass of a fully connected layer with two outputs on one input
\* has run.
C28_Witness_Tall ==
    /\ hist.phase = "unit" /\ hist.last = "bckp" /\ status = "ok"
    /\ UnitIsFcl
    /\ UnitInSize = 1 /\ UnitOutSize = 2
    /\ hist.uses = 1


(***************************************************************************)
(* Tearing the model down.                                                 *)
(***************************************************************************)
DestroyStep == Alive /\ hist'.phase = "destroyed"

\* C29: ctensor_destroy is safe on every model the construction calls can
\* produce, trained or not: with an Adam optimizer that never took a step
\* (m and v still NULL) and with no loss or no optimizer ever set, it
\* dereferences no null or uninitialised pointer, hands free nothing that
\* malloc did not return, and frees no block twice.
C29_DestroySafe ==
    [][DestroyStep =>
          /\ status' = "ok"
          /\ {e \in oob' \ oob : e[1] = "free"} = {}
          /\ \A b \in DOMAIN heap' : heap'[b].frees <= 1
      ]_vars

\* ctensor_destroy has run on a model whose optimizer was set and never
\* stepped.
C29_Witness_FreshAdam ==
    /\ hist.phase = "destroyed"
    /\ hist.opt
    /\ ~hist.trained
    /\ hist.loss
    /\ env.zeroed
    /\ model.optimizer \in DOMAIN opts
    /\ opts[model.optimizer].internal \in DOMAIN adams
    /\ adams[opts[model.optimizer].internal].m = NullPtr
    /\ adams[opts[model.optimizer].internal].v = NullPtr


\* The accesses of kind k that o records outside the buffer of tensor t.
Outside(o, k, t) == {e \in o : e[1] = k /\ e[2] = tens[t].data.blk}

\* C30: a ReLU layer appended with any out_size, equal to the size of its
\* input or not, stays inside its buffers: the forward pass writes out only
\* below out.size, the backward pass reads loss_grad only below
\* loss_grad.size and writes in_grad only below in_grad.size.
C30_ReluInBounds ==
    [][/\ UnitRan("fwd") /\ UnitIsRelu => Outside(oob', "w", UnitLayer.out) = {}
       /\ UnitRan("bckp") /\ UnitIsRelu =>
              /\ Outside(oob', "r", UnitLayer.loss_grad) = {}
              /\ Outside(oob', "w", UnitLayer.in_grad) = {}
      ]_vars

\* The forward pass has run on a ReLU layer narrower than its input.
C30_Witness_Narrow ==
    /\ hist.phase = "unit" /\ hist.last = "fwd" /\ hist.uses = 1
    /\ UnitIsRelu
    /\ UnitInSize = 2 /\ UnitOutSize = 1

====
